---- MODULE Spec2Model ----
(***************************************************************************)
(* A model of the network client of ProjectClient2 (src/client.py) and of  *)
(* the threads of the application that drive it: the Tk main thread (the   *)
(* handlers of auth_frame.py, chat_frame.py, gallery_frame.py, main.py),   *)
(* the receive loop, and the image-loader threads started by               *)
(* ChatFrame.display_message.  The server is the environment: it answers   *)
(* every request it reads with one Response frame, in order, and may send  *)
(* Push frames (Type: message) at any time.                                *)
(*                                                                         *)
(* In specification Spec the connection carries whole frames: one item of  *)
(* `wire` is one frame that reaches the receive loop on its own.           *)
(***************************************************************************)
EXTENDS Naturals, Sequences, FiniteSets

(* ---------------------------------------------------------------- bounds *)

\* Requests the client threads write over one run.
MaxReq == 4

\* Push frames the server sends over one run.
MaxPush == 1

\* Image-loader threads started over one run.
MaxLoaders == 1

\* save_message calls of one run of the history harness (SpecHistory).
MaxSaves == 3

\* Frames the server writes over one run of SpecDecode.
MaxFrames == 2

\* Symbols of the body of a request in SpecEncode.
MaxBody == 3

\* Conversations, status codes and attachment bodies the server may use.
Chats == {3, 4}

Statuses == {200, 201, 404}

PushStatuses == {200, 404}

Loaders == 1 .. MaxLoaders

\* Images in the list the server returns for /gallery.
ImageCounts == {0, 1}

(* ------------------------------------------------------------- constants *)

\* try_load_image: for _ in range(5)
LoadAttempts == 5

\* `None` of a chat id (ChatFrame.selected_chat_id, message.get("chat_id")).
NoChat == 0

(* ----------------------------------------------------------------- state *)

VARIABLES
    sock,              \* Client.client_socket: "open" | "closed"
    peer,              \* the server's end of the connection: "up" | "closed"
    sent,              \* requests written by sendall, not yet read by the server
    wire,              \* frames sent by the server, not yet read by recv
    queue,             \* Client.response_queue
    rl,                \* the thread of Client._receive_loop
    ui,                \* the Tk main thread
    ld,                \* the threads of try_load_image
    files,             \* chat_history/chat_<id>.json, per chat id
    cache,             \* temp_chats_cache/<chat>/<name> per chat id, and temp_gallery_cache/<name>: "none" or the bytes kept
    session,           \* Client.user_id, Client.user_login, Client.username
    chat_frame,        \* Client.chat_frame: FALSE is None
    selected_chat_id,  \* ChatFrame.selected_chat_id
    nreq,              \* requests written so far
    npush,             \* push frames sent so far
    nspawn,            \* loader threads started so far
    displayed,         \* history: the pushes display_message was called for
    stored,            \* history: per chat, the messages whose save_message returned
    overlap,           \* history: a request was written while another was in flight
    hs,                \* the caller of the history harness (SpecHistory)
    stream,            \* SpecDecode: bytes the server wrote, not yet returned by recv
    dc,                \* SpecDecode: the receive loop, byte by byte
    delivered,         \* SpecDecode: what the loop routed, in order
    nframes,           \* SpecDecode: frames the server has started to write
    enc,               \* SpecEncode: the last send_request call and what it wrote
    ss,                \* SpecSession: the last login or sign_in call and its outcome;
                       \* SpecForm: the authentication form
    app,               \* SpecReset: the application, the Clients it made, and who holds which
    tx,                \* SpecWrite: the threads inside sendall and the bytes they wrote
    ed                 \* SpecEditor: the Editor, its stacks and its last two operations

\* The variables of the codec and session specifications.
harnessVars == <<stream, dc, delivered, nframes, enc, ss, app, tx, ed>>

vars == <<sock, peer, sent, wire, queue, rl, ui, ld, files, cache, session,
          chat_frame, selected_chat_id, nreq, npush, nspawn, displayed, stored, overlap, hs, harnessVars>>

(* ---------------------------------------------------------------- values *)

\* A frame as the receive loop decodes it (client.py 96-110): the status of
\* the status line, the Type header, and the body.  A Response carries the
\* number of the request it answers (the protocol has none: the model keeps
\* it to tell whose reply a call returned); a Push carries its own number.
NoFrame == [kind |-> "none", status |-> 0, type |-> "response", req |-> 0,
            body |-> "none", chat |-> NoChat, mtype |-> "text", n |-> 0]

ResponseFrame(s, r, b) ==
    [NoFrame EXCEPT !.kind = "frame", !.status = s, !.req = r, !.body = b]

\* body: "msg" a message envelope with a chat_id; "nochat" a JSON object
\* without chat_id; "notobj" JSON that is no object; "garbage" not JSON.
PushFrame(s, b, c, t, k) ==
    [NoFrame EXCEPT !.kind = "frame", !.status = s, !.type = "message",
                    !.body = b, !.chat = c, !.mtype = t, !.n = k]

\* recv returning b"": the peer closed the connection.
EofItem == [NoFrame EXCEPT !.kind = "eof"]

PushBodies == {"msg", "nochat", "notobj", "garbage"}

MessageTypes == {"text", "image"}

\* Bodies of a Response: JSON (an object with the fields the facade reads),
\* or for /download the raw bytes: an image, bytes that are no image, b"".
DownloadBodies == {"image", "junk", "empty"}

\* A record of a conversation log.
Message(src, k, c, t) == [src |-> src, n |-> k, chat |-> c, mtype |-> t]

NoMessage == Message("none", 0, NoChat, "text")

\* A log file: absent, parseable JSON holding `log`, or "torn": empty or
\* otherwise unparseable text (between open(.., "w") and the flush of
\* json.dump, or after two overlapping writes of different lengths).
AbsentFile == [state |-> "absent", log |-> <<>>]

TornFile == [state |-> "torn", log |-> <<>>]

OkFile(log) == [state |-> "ok", log |-> log]

\* GalleryFrame.cache_dir (gallery_frame.py 24): the gallery's cache is kept
\* in `cache` beside those of the chats, under the index that is no chat id.
GalleryCache == NoChat

CacheDirs == Chats \cup {GalleryCache}

\* A check that finds no file.
PathNeverExists(file) == FALSE

\* os.path.exists of a cached file (gallery_frame.py 65, chat_frame.py 202).
PathExists(file) == file # "none"

NoSession == [user_id |-> 0, user_login |-> "none", username |-> "none"]

Idle == [pc |-> "idle", op |-> "none", req |-> 0, resp |-> NoFrame,
         chat |-> NoChat, mtype |-> "text", hist |-> <<>>]

LoaderOff == [pc |-> "off", req |-> 0, resp |-> NoFrame, chat |-> NoChat,
              tries |-> 0]

RlRecv == [pc |-> "recv", frame |-> NoFrame, hist |-> <<>>]

HsOff == [pc |-> "off", chat |-> NoChat, msg |-> NoMessage, hist |-> <<>>,
          before |-> <<>>, n |-> 0]

Range(s) == {s[i] : i \in 1 .. Len(s)}

\* The decoder, encoder and session harnesses before any step, and for good
\* in the specifications that do not run them.
DcOff == [pc |-> "off", data |-> <<>>, hdr |-> <<>>, body |-> <<>>, cl |-> 0, eof |-> FALSE]

EncOff == [pc |-> "off"]

SsOff == [pc |-> "off"]

AppOff == [pc |-> "off"]

TxOff == [pc |-> "off"]

EdOff == [pc |-> "off"]

HarnessOff ==
    /\ stream = <<>>
    /\ dc = DcOff
    /\ delivered = <<>>
    /\ nframes = 0
    /\ enc = EncOff
    /\ ss = SsOff
    /\ app = AppOff
    /\ tx = TxOff
    /\ ed = EdOff

(* ---------------------------------------------------- the bytes of frames *)

\* Specification SpecDecode follows _receive_loop byte by byte.  The bytes
\* of the connection are kept as symbols: one ordinary byte, the four bytes
\* \r\n\r\n, a whole status line with its header lines (the text before a
\* frame's terminator), and the end of the stream the peer closed.
\* A decimal number is the sequence of its digits.
\* ntok tokens; the second is the decimal text `code`, or no integer.
\* "HTTP/1.1 200 OK" is StatusLine(3, TRUE, <<2, 0, 0>>), "HTTP/1.1" alone
\* StatusLine(1, FALSE, <<>>), "HTTP/1.1 abc OK" StatusLine(3, FALSE, <<>>).
StatusLine(ntok, isint, code) == [ntok |-> ntok, isint |-> isint, code |-> code]

HeaderLine(key, isint, digits, text) ==
    [key |-> key, isint |-> isint, digits |-> digits, text |-> text]

ContentLength(key, n) == HeaderLine(key, TRUE, n, "")

TypeLine(key, text) == HeaderLine(key, FALSE, <<>>, text)

NoHead == [n |-> 0, status |-> StatusLine(1, FALSE, <<>>), lines |-> <<>>, payload |-> <<>>]

ByteSym == [k |-> "byte", head |-> NoHead]

TermSym == [k |-> "term", head |-> NoHead]

EofSym == [k |-> "eof", head |-> NoHead]

\* n and payload are history: the number of the frame and the body the
\* server sent with it; the loop does not see them.
HeadSym(n, status, lines, payload) ==
    [k |-> "head", head |-> [n |-> n, status |-> status, lines |-> lines, payload |-> payload]]

\* len() of bytes: a status line is 15 bytes at least.
BytesOf(sym) == IF sym.k = "byte" THEN 1 ELSE IF sym.k = "term" THEN 4 ELSE 15

RECURSIVE Size(_)
Size(b) == IF b = <<>> THEN 0 ELSE BytesOf(Head(b)) + Size(Tail(b))

\* int() of a decimal text.
RECURSIVE ParseInt(_)
ParseInt(ds) ==
    IF ds = <<>> THEN 0 ELSE 10 * ParseInt(SubSeq(ds, 1, Len(ds) - 1)) + ds[Len(ds)]

\* str() of a natural number.
RECURSIVE DecimalStr(_)
DecimalStr(n) == IF n < 10 THEN <<n>> ELSE Append(DecimalStr(n \div 10), n % 10)

\* The bytes of one frame as the server writes them.
Wire(n, status, lines, body) == <<HeadSym(n, status, lines, body), TermSym>> \o body

(* ------------------------------------------------------------------ Init *)

Init ==
    /\ sock = "open"
    /\ peer = "up"
    /\ sent = <<>>
    /\ wire = <<>>
    /\ queue = <<>>
    /\ rl = RlRecv
    /\ ui = Idle
    /\ ld = [k \in Loaders |-> LoaderOff]
    /\ files = [c \in Chats |-> AbsentFile]
    /\ cache = [c \in CacheDirs |-> "none"]
    /\ session = NoSession
    /\ chat_frame = FALSE
    /\ selected_chat_id = NoChat
    /\ nreq = 0
    /\ npush = 0
    /\ nspawn = 0
    /\ displayed = {}
    /\ stored = [c \in Chats |-> {}]
    /\ overlap = FALSE
    /\ hs = HsOff
    /\ HarnessOff

(* ---------------------------------------------------------------- server *)

\* Requests whose send_request has written its request and has not yet taken
\* a reply from response_queue (client.py 73-74).
InFlight ==
    (IF ui.pc = "wait" THEN 1 ELSE 0) + Cardinality({k \in Loaders : ld[k].pc = "wait"})

\* Loader threads already promised: to an image push on its way to the
\* observer, and to the image the main thread is sending.
ImagePushes(s) ==
    Cardinality({i \in 1 .. Len(s) :
        s[i].kind = "frame" /\ s[i].type = "message" /\ s[i].mtype = "image"})

Reserved ==
    ImagePushes(wire)
      + (IF rl.pc \notin {"recv", "done"} /\ rl.frame.mtype = "image" THEN 1 ELSE 0)
      + (IF ui.op = "send_message" /\ ui.mtype = "image" THEN 1 ELSE 0)

\* The model can start n more loader threads (the bound MaxLoaders).
HasFreeSlots(n) == nspawn + Reserved + n <= MaxLoaders

\* The body the server gives a Response: raw bytes for a successful
\* /download, a JSON object otherwise.
ReplyBodies(op, s) == IF op = "download" /\ s = 200 THEN DownloadBodies ELSE {"json"}

\* The server reads the oldest request and answers it with one Response.
ServerReply ==
    /\ peer = "up"
    /\ sock = "open"
    /\ sent # <<>>
    /\ \E s \in Statuses : \E b \in ReplyBodies(Head(sent).op, s) :
         wire' = Append(wire, ResponseFrame(s, Head(sent).id, b))
    /\ sent' = Tail(sent)
    /\ UNCHANGED <<sock, peer, queue, rl, ui, ld, files, cache, session, chat_frame,
                   selected_chat_id, nreq, npush, nspawn, displayed,
                   stored, overlap, hs, harnessVars>>

\* The push frames the server may send as its k-th.
PushChoices(k) ==
    {PushFrame(s, "msg", c, t, k) : s \in PushStatuses, c \in Chats, t \in MessageTypes}
      \cup {PushFrame(200, b, NoChat, "text", k) : b \in PushBodies \ {"msg"}}

\* The server sends a frame marked Type: message.
ServerPush ==
    /\ peer = "up"
    /\ sock = "open"
    /\ npush < MaxPush
    /\ \E f \in PushChoices(npush + 1) :
         /\ f.mtype = "image" => HasFreeSlots(1)
         /\ wire' = Append(wire, f)
    /\ npush' = npush + 1
    /\ UNCHANGED <<sock, peer, sent, queue, rl, ui, ld, files, cache, session,
                   chat_frame, selected_chat_id, nreq, nspawn, displayed,
                   stored, overlap, hs, harnessVars>>

\* The server closes the connection: recv returns b"" from then on.
ServerClose ==
    /\ peer = "up"
    /\ sock = "open"
    /\ peer' = "closed"
    /\ wire' = Append(wire, EofItem)
    /\ UNCHANGED <<sock, sent, queue, rl, ui, ld, files, cache, session, chat_frame,
                   selected_chat_id, nreq, npush, nspawn, displayed, stored, overlap, hs, harnessVars>>

(* --------------------------------------------------------- history store *)

\* json.load of the log file (client.py 150-154, 169-172): the records, or
\* an exception when the text is not parseable JSON.
ReadLog(f) ==
    [ok |-> f.state # "torn", log |-> IF f.state = "ok" THEN f.log ELSE <<>>]

\* open(file_path, "w") (client.py 157): the file is created or truncated.
TruncateFile(f) == TornFile

\* A save_message that puts the new record first.
PrependMessage(hist, m) == <<m>> \o hist

\* chat_history.append(message_data) (client.py 156).
AppendMessage(hist, m) == Append(hist, m)

\* json.dump and the close that flushes it (client.py 158): the text is
\* written from offset 0.  Over text that another writer flushed after this
\* writer's open, it leaves that text's tail behind when that text is longer
\* (records are taken to be of one size).
DumpFile(f, data) ==
    IF f.state = "ok" /\ Len(f.log) > Len(data) THEN TornFile ELSE OkFile(data)

\* Every chat kept in one file.
OneLogForAll(c) == CHOOSE d \in Chats : TRUE

\* chat_history/chat_<chat_id>.json (client.py 148, 168): the file of a chat,
\* as `files` is indexed.
LogPath(c) == c

\* Client.load_chat_history (client.py 160-172).
LoadChatHistory(c) == ReadLog(files[LogPath(c)])

(* ---------------------------------------------------------- receive loop *)

\* if status == 200 or status == 201 (client.py 111).
Routed(status) == status = 200 \/ status = 201

\* A loop that takes no frame for a push.
NeverPush(f) == FALSE

\* type_header == "message" (client.py 110, 112).
IsPush(f) == f.type = "message"

\* The thread started by display_message for an image message
\* (chat_frame.py 194-233): the next loader thread of the model.
StartLoader(c) ==
    /\ nspawn < MaxLoaders
    /\ nspawn' = nspawn + 1
    /\ ld' = [ld EXCEPT ![nspawn + 1] = [LoaderOff EXCEPT !.pc = "check", !.chat = c]]

\* ChatFrame.display_message (chat_frame.py 166-236): a text bubble is built
\* in place, an image is handed to a new loader thread.
DisplayMessage(c, t) ==
    IF t = "image" THEN StartLoader(c) ELSE UNCHANGED <<nspawn, ld>>

\* What the loop does when handle_incoming_message raised inside its
\* try block (client.py 136-137): the error is printed, the loop goes on.
AfterHandlerError == "recv"

\* One pass of the loop on the open socket (client.py 89-115): recv returns
\* b"" and the loop returns, or a frame is read and decoded and then handed
\* to handle_incoming_message, put on response_queue, or neither.  rl.frame
\* is the loop's status, type_header and body: they keep the values of the
\* last frame until the next one is decoded.
RlRecvFrame ==
    /\ rl.pc = "recv"
    /\ sock = "open"
    /\ wire # <<>>
    /\ wire' = Tail(wire)
    /\ LET f == Head(wire)
       IN  \/ /\ f.kind = "eof"
              /\ rl' = [rl EXCEPT !.pc = "done"]
              /\ UNCHANGED queue
           \/ /\ f.kind = "frame"
              /\ Routed(f.status)
              /\ IsPush(f)
              /\ rl' = [rl EXCEPT !.pc = "handle", !.frame = f]
              /\ UNCHANGED queue
           \/ /\ f.kind = "frame"
              /\ Routed(f.status)
              /\ ~IsPush(f)
              /\ queue' = Append(queue, f)
              /\ rl' = [rl EXCEPT !.frame = f]
           \/ /\ f.kind = "frame"
              /\ ~Routed(f.status)
              /\ rl' = [rl EXCEPT !.frame = f]
              /\ UNCHANGED queue
    /\ UNCHANGED <<sock, peer, sent, ui, ld, files, cache, session, chat_frame,
                   selected_chat_id, nreq, npush, nspawn, displayed, stored,
                   overlap, hs, harnessVars>>

\* A loop that swallows the error of recv and tries again.
RlRetriesRecv ==
    /\ rl.pc = "recv"
    /\ sock = "closed"
    /\ UNCHANGED vars

\* recv on the socket that exit() closed raises: the loop breaks (116-118).
RlRecvClosed ==
    /\ rl.pc = "recv"
    /\ sock = "closed"
    /\ rl' = [rl EXCEPT !.pc = "done"]
    /\ UNCHANGED <<sock, peer, sent, wire, queue, ui, ld, files, cache, session,
                   chat_frame, selected_chat_id, nreq, npush, nspawn, displayed, stored, overlap, hs, harnessVars>>

\* handle_incoming_message, client.py 126-129: json.loads and .get raise on
\* a body that is no JSON object; a body without chat_id is skipped.
RlHandle ==
    /\ rl.pc = "handle"
    /\ rl' = IF rl.frame.body \in {"garbage", "notobj"} THEN [rl EXCEPT !.pc = AfterHandlerError]
             ELSE IF rl.frame.chat = NoChat THEN [rl EXCEPT !.pc = "recv"]
             ELSE [rl EXCEPT !.pc = "save_read"]
    /\ UNCHANGED <<sock, peer, sent, wire, queue, ui, ld, files, cache, session,
                   chat_frame, selected_chat_id, nreq, npush, nspawn, displayed, stored, overlap, hs, harnessVars>>

\* save_message on the receive thread, client.py 150-154.
RlSaveRead ==
    /\ rl.pc = "save_read"
    /\ rl' = IF ReadLog(files[rl.frame.chat]).ok
             THEN [rl EXCEPT !.pc = "save_open", !.hist = ReadLog(files[rl.frame.chat]).log]
             ELSE [rl EXCEPT !.pc = AfterHandlerError]
    /\ UNCHANGED <<sock, peer, sent, wire, queue, ui, ld, files, cache, session,
                   chat_frame, selected_chat_id, nreq, npush, nspawn, displayed, stored, overlap, hs, harnessVars>>

\* client.py 156-157.
RlSaveOpen ==
    /\ rl.pc = "save_open"
    /\ files' = [files EXCEPT ![rl.frame.chat] = TruncateFile(@)]
    /\ rl' = [rl EXCEPT !.pc = "save_dump",
                        !.hist = AppendMessage(@, Message("push", rl.frame.n, rl.frame.chat, rl.frame.mtype))]
    /\ UNCHANGED <<sock, peer, sent, wire, queue, ui, ld, cache, session, chat_frame,
                   selected_chat_id, nreq, npush, nspawn, displayed, stored, overlap, hs, harnessVars>>

\* client.py 158.
RlSaveDump ==
    /\ rl.pc = "save_dump"
    /\ files' = [files EXCEPT ![rl.frame.chat] = DumpFile(@, rl.hist)]
    /\ stored' = [stored EXCEPT ![rl.frame.chat] = @ \cup {rl.hist[Len(rl.hist)]}]
    /\ rl' = [rl EXCEPT !.pc = "notify", !.hist = <<>>]
    /\ UNCHANGED <<sock, peer, sent, wire, queue, ui, ld, cache, session, chat_frame,
                   selected_chat_id, nreq, npush, nspawn, displayed, overlap, hs, harnessVars>>

\* A notification that downloads the image of the message itself, on the
\* thread of the loop.
RlNotifyDownloads ==
    /\ rl.pc = "notify"
    /\ chat_frame
    /\ selected_chat_id = rl.frame.chat
    /\ rl.frame.mtype = "image"
    /\ nreq < MaxReq
    /\ nreq' = nreq + 1
    /\ sent' = IF peer = "up" THEN Append(sent, [id |-> nreq + 1, op |-> "download"]) ELSE sent
    /\ displayed' = displayed \cup {rl.frame.n}
    /\ rl' = [rl EXCEPT !.pc = "recv"]
    /\ UNCHANGED <<sock, peer, wire, queue, ui, ld, files, cache, session, chat_frame,
                   selected_chat_id, npush, nspawn, stored, overlap, hs, harnessVars>>

\* client.py 131-135: with no chat frame set, the attribute access raises.
RlNotify ==
    /\ rl.pc = "notify"
    /\ \/ /\ ~chat_frame
          /\ rl' = [rl EXCEPT !.pc = AfterHandlerError]
          /\ UNCHANGED <<nspawn, ld, displayed>>
       \/ /\ chat_frame
          /\ selected_chat_id = rl.frame.chat
          /\ DisplayMessage(rl.frame.chat, rl.frame.mtype)
          /\ displayed' = displayed \cup {rl.frame.n}
          /\ rl' = [rl EXCEPT !.pc = "recv"]
       \/ /\ chat_frame
          /\ selected_chat_id # rl.frame.chat
          /\ rl' = [rl EXCEPT !.pc = "recv"]
          /\ UNCHANGED <<nspawn, ld, displayed>>
    /\ UNCHANGED <<sock, peer, sent, wire, queue, ui, files, cache, session,
                   chat_frame, selected_chat_id, nreq, npush, stored, overlap, hs, harnessVars>>

(* ---------------------------------------------------------- send_request *)

\* sendall returns (client.py 73): the request is on its way, or, with the
\* peer gone, nowhere.  The caller then blocks in response_queue.get().
WriteRequest(op) ==
    /\ nreq < MaxReq
    /\ sock = "open"
    /\ nreq' = nreq + 1
    /\ overlap' = (overlap \/ InFlight > 0)
    /\ sent' = IF peer = "up" THEN Append(sent, [id |-> nreq + 1, op |-> op]) ELSE sent

\* sendall raises: the socket was closed by exit(), or the peer is gone.
WriteFails ==
    /\ sock = "closed" \/ peer = "closed"
    /\ UNCHANGED <<nreq, overlap, sent>>

\* json.loads(response) in the facade: it raises on bytes that are no JSON.
ParsesAsJson(f) == f.body = "json"

(* ------------------------------------------------------------ main thread *)

\* AuthFrame.authenticate in login mode (auth_frame.py 95-105), up to the
\* request of Client.login (client.py 182-183).
UiLogin ==
    /\ ui.pc = "idle"
    /\ ~chat_frame
    /\ \/ /\ WriteRequest("login")
          /\ ui' = [Idle EXCEPT !.pc = "wait", !.op = "login", !.req = nreq + 1]
       \/ /\ WriteFails
          /\ ui' = Idle
    /\ UNCHANGED <<sock, peer, wire, queue, rl, ld, files, cache, session, chat_frame,
                   selected_chat_id, npush, nspawn, displayed,
                   stored, hs, harnessVars>>

\* MainApplication.on_login_success, main.py 87-88, and check_authentication
\* on the Gallery tab, main.py 108-110: GalleryFrame.load_gallery asks for
\* the gallery (gallery_frame.py 45, client.py 373-374).
UiLoadGallery ==
    /\ ui.pc = "gallery" \/ (ui.pc = "idle" /\ chat_frame)
    /\ \/ /\ WriteRequest("get_gallery")
          /\ ui' = [Idle EXCEPT !.pc = "wait", !.op = "get_gallery", !.req = nreq + 1]
       \/ /\ WriteFails
          /\ ui' = Idle
    /\ UNCHANGED <<sock, peer, wire, queue, rl, ld, files, cache, session, chat_frame,
                   selected_chat_id, npush, nspawn, displayed,
                   stored, hs, harnessVars>>

\* GalleryFrame.download_and_cache (gallery_frame.py 64-68), called by
\* load_gallery for an image of the list: a cached file is returned as it is,
\* otherwise the request of Client.download is written (client.py 356-357).
UiDownloadAndCache ==
    /\ ui.pc = "gcheck"
    /\ \/ /\ PathExists(cache[GalleryCache])
          /\ ui' = [Idle EXCEPT !.pc = "thumbnail"]
          /\ UNCHANGED <<nreq, overlap, sent>>
       \/ /\ ~PathExists(cache[GalleryCache])
          /\ WriteRequest("download")
          /\ ui' = [Idle EXCEPT !.pc = "wait", !.op = "download", !.req = nreq + 1]
       \/ /\ ~PathExists(cache[GalleryCache])
          /\ WriteFails
          /\ ui' = Idle
    /\ UNCHANGED <<sock, peer, wire, queue, rl, ld, files, cache, session, chat_frame,
                   selected_chat_id, npush, nspawn, displayed,
                   stored, hs, harnessVars>>

\* load_gallery with the path download_and_cache returned
\* (gallery_frame.py 53-54): display_thumbnail opens the cached file, and
\* catches what a file that is no image raises (gallery_frame.py 86-103).
UiDisplayThumbnail ==
    /\ ui.pc = "thumbnail"
    /\ ui' = Idle
    /\ UNCHANGED <<sock, peer, sent, wire, queue, rl, ld, files, cache, session,
                   chat_frame, selected_chat_id, nreq, npush, nspawn, displayed,
                   stored, overlap, hs, harnessVars>>

\* MainApplication.check_authentication on the Chats tab (main.py 105-107):
\* ChatFrame.load_chats, client.py 390-391.
UiLoadChats ==
    /\ ui.pc = "idle"
    /\ chat_frame
    /\ \/ /\ WriteRequest("get_chats")
          /\ ui' = [Idle EXCEPT !.pc = "wait", !.op = "get_chats", !.req = nreq + 1]
       \/ /\ WriteFails
          /\ ui' = Idle
    /\ UNCHANGED <<sock, peer, wire, queue, rl, ld, files, cache, session, chat_frame,
                   selected_chat_id, npush, nspawn, displayed,
                   stored, hs, harnessVars>>

\* ChatFrame.on_chat_select and display_chat_history (chat_frame.py 146-164):
\* the chat becomes the selected one, its log is loaded and every record is
\* displayed, each image by a loader thread of its own.
ImageCount(log) == Cardinality({i \in 1 .. Len(log) : log[i].mtype = "image"})

UiSelectChat ==
    /\ ui.pc = "idle"
    /\ chat_frame
    /\ \E c \in Chats :
         /\ selected_chat_id' = c
         /\ IF LoadChatHistory(c).ok
            THEN LET n == ImageCount(LoadChatHistory(c).log)
                 IN  /\ HasFreeSlots(n)
                     /\ nspawn' = nspawn + n
                     /\ ld' = [k \in Loaders |->
                                 IF nspawn < k /\ k <= nspawn + n
                                 THEN [LoaderOff EXCEPT !.pc = "check", !.chat = c]
                                 ELSE ld[k]]
            ELSE UNCHANGED <<nspawn, ld>>
    /\ UNCHANGED <<sock, peer, sent, wire, queue, rl, ui, files, cache, session,
                   chat_frame, nreq, npush, displayed, stored,
                   overlap, hs, harnessVars>>

\* ChatFrame.send_text_message (chat_frame.py 421-433) and send_to_chat
\* (chat_frame.py 494-502), up to the request of Client.send_message
\* (client.py 259-263).
UiSendMessage ==
    /\ ui.pc = "idle"
    /\ chat_frame
    /\ selected_chat_id # NoChat
    /\ \E t \in MessageTypes :
         /\ t = "image" => HasFreeSlots(1)
         /\ \/ /\ WriteRequest("send_message")
               /\ ui' = [Idle EXCEPT !.pc = "wait", !.op = "send_message", !.req = nreq + 1,
                                     !.chat = selected_chat_id, !.mtype = t]
            \/ /\ WriteFails
               /\ ui' = Idle
    /\ UNCHANGED <<sock, peer, wire, queue, rl, ld, files, cache, session, chat_frame,
                   selected_chat_id, npush, nspawn, displayed,
                   stored, hs, harnessVars>>

\* Client.exit (client.py 469-471), called by MainApplication.reset_client
\* (main.py 133-136): the /exit request, or sendall raising into the finally.
UiExit ==
    /\ ui.pc = "idle"
    /\ sock = "open"
    /\ \/ /\ WriteRequest("exit")
          /\ ui' = [Idle EXCEPT !.pc = "wait", !.op = "exit", !.req = nreq + 1]
          /\ UNCHANGED sock
       \/ /\ WriteFails
          /\ ui' = [Idle EXCEPT !.pc = "exited", !.op = "exit"]
          /\ sock' = "closed"
    /\ UNCHANGED <<peer, wire, queue, rl, ld, files, cache, session, chat_frame,
                   selected_chat_id, npush, nspawn, displayed,
                   stored, hs, harnessVars>>

\* response_queue.get() returns to the main thread (client.py 74).
UiGet ==
    /\ ui.pc = "wait"
    /\ queue # <<>>
    /\ queue' = Tail(queue)
    /\ ui' = [ui EXCEPT !.pc = "ret", !.resp = Head(queue)]
    /\ UNCHANGED <<sock, peer, sent, wire, rl, ld, files, cache, session, chat_frame,
                   selected_chat_id, nreq, npush, nspawn, displayed, stored, overlap, hs, harnessVars>>

\* The session of a successful login (client.py 187-189).
LoggedIn == [user_id |-> 7, user_login |-> "bob", username |-> "Bob"]

\* The facade operation maps the reply to its outcome, and the handler that
\* called it goes on.
UiReturn ==
    /\ ui.pc = "ret"
    /\ \/ \* Client.login 185-194, authenticate 98-105, on_login_success 74-85
          /\ ui.op = "login"
          /\ IF ParsesAsJson(ui.resp) /\ ui.resp.status = 200
             THEN /\ session' = LoggedIn
                  /\ chat_frame' = TRUE
                  /\ selected_chat_id' = NoChat
                  /\ ui' = [Idle EXCEPT !.pc = "gallery"]
             ELSE /\ ui' = Idle
                  /\ UNCHANGED <<session, chat_frame, selected_chat_id>>
          /\ UNCHANGED <<sock, cache>>
       \/ \* Client.send_message 265-270
          /\ ui.op = "send_message"
          /\ ui' = IF ~ParsesAsJson(ui.resp) THEN Idle
                   ELSE IF ui.resp.status = 200 THEN [ui EXCEPT !.pc = "save_read"]
                   ELSE [ui EXCEPT !.pc = "display"]
          /\ UNCHANGED <<session, chat_frame, selected_chat_id, sock, cache>>
       \/ \* Client.get_chats 393-399
          /\ ui.op = "get_chats"
          /\ ui' = Idle
          /\ UNCHANGED <<session, chat_frame, selected_chat_id, sock, cache>>
       \/ \* Client.get_gallery 376-382, load_gallery 45-52: the list of images
          /\ ui.op = "get_gallery"
          /\ IF ParsesAsJson(ui.resp) /\ ui.resp.status = 200
             THEN \E n \in ImageCounts :
                     ui' = IF n = 0 THEN Idle ELSE [Idle EXCEPT !.pc = "gcheck"]
             ELSE ui' = Idle
          /\ UNCHANGED <<session, chat_frame, selected_chat_id, sock, cache>>
       \/ \* Client.download 359-365, download_and_cache 69-75: the bytes of a
          \* 200 reply are written to the cache, whatever they are
          /\ ui.op = "download"
          /\ cache' = IF ui.resp.status = 200
                      THEN [cache EXCEPT ![GalleryCache] =
                              IF ui.resp.body = "image" THEN "image" ELSE "junk"]
                      ELSE cache
          /\ ui' = IF ui.resp.status = 200 THEN [ui EXCEPT !.pc = "thumbnail"] ELSE Idle
          /\ UNCHANGED <<session, chat_frame, selected_chat_id, sock>>
       \/ \* Client.exit 472-481
          /\ ui.op = "exit"
          /\ sock' = "closed"
          /\ ui' = [Idle EXCEPT !.pc = "exited", !.op = "exit"]
          /\ UNCHANGED <<session, chat_frame, selected_chat_id, cache>>
    /\ UNCHANGED <<peer, sent, wire, queue, rl, ld, files, nreq, npush,
                   nspawn, displayed, stored, overlap, hs, harnessVars>>

\* save_message on the main thread, client.py 150-154: json.load raising
\* ends the handler.
UiSaveRead ==
    /\ ui.pc = "save_read"
    /\ ui' = IF ReadLog(files[ui.chat]).ok
             THEN [ui EXCEPT !.pc = "save_open", !.hist = ReadLog(files[ui.chat]).log]
             ELSE Idle
    /\ UNCHANGED <<sock, peer, sent, wire, queue, rl, ld, files, cache, session,
                   chat_frame, selected_chat_id, nreq, npush, nspawn, displayed, stored, overlap, hs, harnessVars>>

\* client.py 156-157.
UiSaveOpen ==
    /\ ui.pc = "save_open"
    /\ files' = [files EXCEPT ![ui.chat] = TruncateFile(@)]
    /\ ui' = [ui EXCEPT !.pc = "save_dump",
                        !.hist = AppendMessage(@, Message("local", ui.req, ui.chat, ui.mtype))]
    /\ UNCHANGED <<sock, peer, sent, wire, queue, rl, ld, cache, session, chat_frame,
                   selected_chat_id, nreq, npush, nspawn, displayed, stored, overlap, hs, harnessVars>>

\* client.py 158.
UiSaveDump ==
    /\ ui.pc = "save_dump"
    /\ files' = [files EXCEPT ![ui.chat] = DumpFile(@, ui.hist)]
    /\ stored' = [stored EXCEPT ![ui.chat] = @ \cup {ui.hist[Len(ui.hist)]}]
    /\ ui' = [ui EXCEPT !.pc = "display", !.hist = <<>>]
    /\ UNCHANGED <<sock, peer, sent, wire, queue, rl, ld, cache, session, chat_frame,
                   selected_chat_id, nreq, npush, nspawn, displayed, overlap, hs, harnessVars>>

\* chat_frame.py 431-433, 499-502: the message just sent is displayed.
UiDisplay ==
    /\ ui.pc = "display"
    /\ DisplayMessage(ui.chat, ui.mtype)
    /\ ui' = Idle
    /\ UNCHANGED <<sock, peer, sent, wire, queue, rl, files, cache, session,
                   chat_frame, selected_chat_id, nreq, npush, displayed, stored, overlap, hs, harnessVars>>

(* ---------------------------------------------------------- image loader *)

\* A loop that allows one attempt more.
OneMoreAttempt(tries) == tries <= LoadAttempts

\* `for _ in range(5)` (chat_frame.py 200) has an iteration left after
\* `tries` of them.
AttemptsLeft(tries) == tries < LoadAttempts

\* try_load_image, chat_frame.py 200-203 and 227-231: the next attempt, or
\* on_fail after the last.
LdAttempt(k) ==
    /\ ld[k].pc = "check"
    /\ \/ /\ ~AttemptsLeft(ld[k].tries)
          /\ ld' = [ld EXCEPT ![k].pc = "failed"]
          /\ UNCHANGED <<nreq, overlap, sent>>
       \/ /\ AttemptsLeft(ld[k].tries)
          /\ PathExists(cache[ld[k].chat])
          /\ cache[ld[k].chat] = "image"
          /\ ld' = [ld EXCEPT ![k].pc = "loaded"]
          /\ UNCHANGED <<nreq, overlap, sent>>
       \/ /\ AttemptsLeft(ld[k].tries)
          /\ PathExists(cache[ld[k].chat])
          /\ cache[ld[k].chat] = "junk"
          /\ ld' = [ld EXCEPT ![k].tries = @ + 1]
          /\ UNCHANGED <<nreq, overlap, sent>>
       \/ /\ AttemptsLeft(ld[k].tries)
          /\ ~PathExists(cache[ld[k].chat])
          /\ WriteRequest("download")
          /\ ld' = [ld EXCEPT ![k].pc = "wait", ![k].req = nreq + 1]
       \/ /\ AttemptsLeft(ld[k].tries)
          /\ ~PathExists(cache[ld[k].chat])
          /\ WriteFails
          /\ ld' = [ld EXCEPT ![k].tries = @ + 1]
    /\ UNCHANGED <<sock, peer, wire, queue, rl, ui, files, cache, session, chat_frame,
                   selected_chat_id, npush, nspawn, displayed,
                   stored, hs, harnessVars>>

\* response_queue.get() returns to a loader thread (client.py 74).
LdGet(k) ==
    /\ ld[k].pc = "wait"
    /\ queue # <<>>
    /\ queue' = Tail(queue)
    /\ ld' = [ld EXCEPT ![k].pc = "ret", ![k].resp = Head(queue)]
    /\ UNCHANGED <<sock, peer, sent, wire, rl, ui, files, cache, session, chat_frame,
                   selected_chat_id, nreq, npush, nspawn, displayed, stored, overlap, hs, harnessVars>>

\* Client.download 359-365, then chat_frame.py 204-225: bytes are written to
\* the cache and opened as an image; no bytes, or an exception, is one more
\* failed attempt.
LdReturn(k) ==
    /\ ld[k].pc = "ret"
    /\ IF ld[k].resp.status = 200 /\ ld[k].resp.body # "empty"
       THEN /\ cache' = [cache EXCEPT ![ld[k].chat] =
                           IF ld[k].resp.body = "image" THEN "image" ELSE "junk"]
            /\ ld' = IF ld[k].resp.body = "image"
                     THEN [ld EXCEPT ![k].pc = "loaded", ![k].resp = NoFrame]
                     ELSE [ld EXCEPT ![k].pc = "check", ![k].resp = NoFrame, ![k].tries = @ + 1]
       ELSE /\ ld' = [ld EXCEPT ![k].pc = "check", ![k].resp = NoFrame, ![k].tries = @ + 1]
            /\ UNCHANGED cache
    /\ UNCHANGED <<sock, peer, sent, wire, queue, rl, ui, files, session, chat_frame,
                   selected_chat_id, nreq, npush, nspawn, displayed, stored, overlap, hs, harnessVars>>

(* --------------------------------------------------------- specification *)

Next ==
    \/ ServerReply
    \/ ServerPush
    \/ ServerClose
    \/ RlRecvFrame
    \/ RlRecvClosed
    \/ RlHandle
    \/ RlSaveRead
    \/ RlSaveOpen
    \/ RlSaveDump
    \/ RlNotify
    \/ UiLogin
    \/ UiLoadGallery
    \/ UiDownloadAndCache
    \/ UiDisplayThumbnail
    \/ UiLoadChats
    \/ UiSelectChat
    \/ UiSendMessage
    \/ UiExit
    \/ UiGet
    \/ UiReturn
    \/ UiSaveRead
    \/ UiSaveOpen
    \/ UiSaveDump
    \/ UiDisplay
    \/ \E k \in Loaders : LdAttempt(k)
    \/ \E k \in Loaders : LdGet(k)
    \/ \E k \in Loaders : LdReturn(k)

Spec == Init /\ [][Next]_vars

\* The scheduler runs every thread that can take a step, and the server
\* answers the requests it has read.
UiNext ==
    \/ UiLogin \/ UiLoadGallery \/ UiDownloadAndCache \/ UiDisplayThumbnail
    \/ UiLoadChats \/ UiSelectChat \/ UiSendMessage
    \/ UiExit \/ UiGet \/ UiReturn \/ UiSaveRead \/ UiSaveOpen \/ UiSaveDump
    \/ UiDisplay

RlNext ==
    \/ RlRecvFrame \/ RlRecvClosed \/ RlHandle \/ RlSaveRead \/ RlSaveOpen
    \/ RlSaveDump \/ RlNotify

LdNext == \E k \in Loaders : LdAttempt(k) \/ LdGet(k) \/ LdReturn(k)

FairSpec ==
    /\ Spec
    /\ WF_vars(UiNext)
    /\ WF_vars(RlNext)
    /\ WF_vars(LdNext)
    /\ WF_vars(ServerReply)

(* ------------------------------------------------------- history harness *)

\* One caller of Client.save_message and Client.load_chat_history, with no
\* other thread running: it loads a chat's log, saves a message to it step
\* by step, and loads the log again.
HsMessages(c) == {Message("local", k, c, t) : k \in 1 .. 2, t \in MessageTypes}

HsCall ==
    /\ hs.pc = "idle"
    /\ hs.n < MaxSaves
    /\ \E c \in Chats : \E m \in HsMessages(c) :
         /\ LoadChatHistory(c).ok
         /\ hs' = [pc |-> "save_read", chat |-> c, msg |-> m, hist |-> <<>>,
                   before |-> LoadChatHistory(c).log, n |-> hs.n + 1]
    /\ UNCHANGED <<sock, peer, sent, wire, queue, rl, ui, ld, files, cache, session,
                   chat_frame, selected_chat_id, nreq, npush, nspawn, displayed,
                   stored, overlap, harnessVars>>

\* client.py 150-154.
HsSaveRead ==
    /\ hs.pc = "save_read"
    /\ hs' = IF ReadLog(files[LogPath(hs.chat)]).ok
             THEN [hs EXCEPT !.pc = "save_open", !.hist = ReadLog(files[LogPath(hs.chat)]).log]
             ELSE [hs EXCEPT !.pc = "idle"]
    /\ UNCHANGED <<sock, peer, sent, wire, queue, rl, ui, ld, files, cache, session,
                   chat_frame, selected_chat_id, nreq, npush, nspawn, displayed,
                   stored, overlap, harnessVars>>

\* client.py 156-157.
HsSaveOpen ==
    /\ hs.pc = "save_open"
    /\ files' = [files EXCEPT ![LogPath(hs.chat)] = TruncateFile(@)]
    /\ hs' = [hs EXCEPT !.pc = "save_dump", !.hist = AppendMessage(@, hs.msg)]
    /\ UNCHANGED <<sock, peer, sent, wire, queue, rl, ui, ld, cache, session,
                   chat_frame, selected_chat_id, nreq, npush, nspawn, displayed,
                   stored, overlap, harnessVars>>

\* client.py 158.
HsSaveDump ==
    /\ hs.pc = "save_dump"
    /\ files' = [files EXCEPT ![LogPath(hs.chat)] = DumpFile(@, hs.hist)]
    /\ hs' = [hs EXCEPT !.pc = "returned", !.hist = <<>>]
    /\ UNCHANGED <<sock, peer, sent, wire, queue, rl, ui, ld, cache, session,
                   chat_frame, selected_chat_id, nreq, npush, nspawn, displayed,
                   stored, overlap, harnessVars>>

\* The caller goes on to its next call.
HsNext ==
    /\ hs.pc = "returned"
    /\ hs' = [hs EXCEPT !.pc = "idle"]
    /\ UNCHANGED <<sock, peer, sent, wire, queue, rl, ui, ld, files, cache, session,
                   chat_frame, selected_chat_id, nreq, npush, nspawn, displayed,
                   stored, overlap, harnessVars>>

InitHistory ==
    /\ sock = "open"
    /\ peer = "up"
    /\ sent = <<>>
    /\ wire = <<>>
    /\ queue = <<>>
    /\ rl = RlRecv
    /\ ui = Idle
    /\ ld = [k \in Loaders |-> LoaderOff]
    /\ files = [c \in Chats |-> AbsentFile]
    /\ cache = [c \in CacheDirs |-> "none"]
    /\ session = NoSession
    /\ chat_frame = FALSE
    /\ selected_chat_id = NoChat
    /\ nreq = 0
    /\ npush = 0
    /\ nspawn = 0
    /\ displayed = {}
    /\ stored = [c \in Chats |-> {}]
    /\ overlap = FALSE
    /\ hs = [HsOff EXCEPT !.pc = "idle"]
    /\ HarnessOff

NextHistory == HsCall \/ HsSaveRead \/ HsSaveOpen \/ HsSaveDump \/ HsNext

SpecHistory == InitHistory /\ [][NextHistory]_vars

(* ------------------------------------------------- receive loop, in bytes *)

\* The variables of the client and of the history harness, which the codec
\* and session specifications leave alone.
clientVars == <<sock, peer, sent, wire, queue, rl, ui, ld, files, cache, session,
                chat_frame, selected_chat_id, nreq, npush, nspawn, displayed,
                stored, overlap, hs>>

ClientOff ==
    /\ sock = "open"
    /\ peer = "up"
    /\ sent = <<>>
    /\ wire = <<>>
    /\ queue = <<>>
    /\ rl = RlRecv
    /\ ui = Idle
    /\ ld = [k \in Loaders |-> LoaderOff]
    /\ files = [c \in Chats |-> AbsentFile]
    /\ cache = [c \in CacheDirs |-> "none"]
    /\ session = NoSession
    /\ chat_frame = FALSE
    /\ selected_chat_id = NoChat
    /\ nreq = 0
    /\ npush = 0
    /\ nspawn = 0
    /\ displayed = {}
    /\ stored = [c \in Chats |-> {}]
    /\ overlap = FALSE
    /\ hs = HsOff

Ok200 == StatusLine(3, TRUE, <<2, 0, 0>>)

Created201 == StatusLine(3, TRUE, <<2, 0, 1>>)

NotFound404 == StatusLine(3, TRUE, <<4, 0, 4>>)

Bodies == {<<>>, <<ByteSym>>, <<ByteSym, TermSym>>}

\* Content-Length of the exact length of the body.
LengthOf(b) == <<ContentLength("Content-Length", DecimalStr(Size(b)))>>

\* The frames the server may write as its n-th: Responses and Pushes with
\* and without a body, with the header names in either case, with a
\* malformed status line, one that declares a byte more than it carries, and
\* two that repeat a header under another spelling of its name.
Frames(n) ==
    {Wire(n, st, LengthOf(b), b) : st \in {Ok200, NotFound404}, b \in Bodies}
      \cup {Wire(n, Created201, LengthOf(<<ByteSym>>), <<ByteSym>>)}
      \cup {Wire(n, st, LengthOf(<<ByteSym>>) \o <<TypeLine(key, "message")>>, <<ByteSym>>) :
              st \in {Ok200, NotFound404}, key \in {"Type", "TYPE"}}
      \cup {Wire(n, Ok200, LengthOf(<<ByteSym>>) \o <<TypeLine("Type", "response")>>, <<ByteSym>>)}
      \cup {Wire(n, Ok200, <<>>, <<>>)}
      \cup {Wire(n, st, LengthOf(<<>>), <<>>) :
              st \in {StatusLine(1, FALSE, <<>>), StatusLine(3, FALSE, <<>>)}}
      \cup {Wire(n, Ok200, <<ContentLength("content-length", <<2>>)>>, <<ByteSym>>)}
      \cup {Wire(n, Ok200, <<ContentLength("Content-Length", <<2>>),
                             ContentLength("content-length", <<1>>)>>, <<ByteSym>>)}
      \cup {Wire(n, Ok200, LengthOf(<<ByteSym>>)
                             \o <<TypeLine("Type", "response"), TypeLine("TYPE", "message")>>,
                  <<ByteSym>>)}

\* The peer has closed: recv returns b"" once the bytes before are read.
Closed(s) == s # <<>> /\ s[Len(s)].k = "eof"

\* The server writes one whole frame.
SrvSend ==
    /\ nframes < MaxFrames
    /\ ~Closed(stream)
    /\ \E w \in Frames(nframes + 1) : stream' = stream \o w
    /\ nframes' = nframes + 1
    /\ UNCHANGED <<clientVars, dc, delivered, enc, ss, app, tx, ed>>

\* The server writes the first bytes of a frame and closes the connection.
SrvCut ==
    /\ nframes < MaxFrames
    /\ ~Closed(stream)
    /\ \E w \in Frames(nframes + 1) : \E k \in 1 .. Len(w) - 1 :
         stream' = stream \o SubSeq(w, 1, k) \o <<EofSym>>
    /\ nframes' = nframes + 1
    /\ UNCHANGED <<clientVars, dc, delivered, enc, ss, app, tx, ed>>

\* The server closes the connection after the frames it wrote.
SrvClose ==
    /\ ~Closed(stream)
    /\ stream' = Append(stream, EofSym)
    /\ UNCHANGED <<clientVars, dc, delivered, nframes, enc, ss, app, tx, ed>>

\* b"\r\n\r\n" in data (client.py 90).
HasTerm(d) == \E i \in 1 .. Len(d) : d[i].k = "term"

\* data.partition(b"\r\n\r\n") (client.py 96): the text before the first
\* terminator, and the bytes after it.
FirstTerm(d) ==
    CHOOSE i \in 1 .. Len(d) : d[i].k = "term" /\ \A j \in 1 .. i - 1 : d[j].k # "term"

HeaderPart(d) == SubSeq(d, 1, FirstTerm(d) - 1)

BodyPart(d) == SubSeq(d, FirstTerm(d) + 1, Len(d))

\* headers.decode().split("\r\n") (client.py 97-98): the status line and the
\* header lines of the text before the terminator.  Bytes left in front of a
\* status line are part of its first token; text that holds no status line
\* is one line of one token, with no header lines.
ParsedHead(hp) ==
    IF hp # <<>> /\ hp[Len(hp)].k = "head" THEN hp[Len(hp)].head ELSE NoHead

\* A mapping that keeps the keys as they were written.
KeepCase(key) == key

\* key.lower() (client.py 103).
LowerKey(key) ==
    IF key \in {"Content-Length", "content-length"} THEN "content-length"
    ELSE IF key \in {"Type", "TYPE", "type"} THEN "type"
    ELSE key

\* headers_dict (client.py 100-103): a later line of a key replaces an
\* earlier one.
LinesOf(lines, key) == {i \in 1 .. Len(lines) : LowerKey(lines[i].key) = key}

HeaderOf(lines, key) ==
    lines[CHOOSE i \in LinesOf(lines, key) : \A j \in LinesOf(lines, key) : j <= i]

\* int(headers_dict.get("content-length", 0)) (client.py 105).
LengthError(h) ==
    LinesOf(h.lines, "content-length") # {} /\ ~HeaderOf(h.lines, "content-length").isint

DeclaredLength(h) ==
    IF LinesOf(h.lines, "content-length") = {} THEN 0
    ELSE ParseInt(HeaderOf(h.lines, "content-length").digits)

\* headers_dict.get("type", "response") (client.py 110).
TypeHeader(h) ==
    IF LinesOf(h.lines, "type") = {} THEN "response" ELSE HeaderOf(h.lines, "type").text

\* A status parse that accepts every status line.
StatusNeverRaises(h) == FALSE

\* int(status_line.split(" ")[1]) (client.py 109): IndexError without a
\* second token, ValueError when it is no integer.
StatusError(h) == h.status.ntok < 2 \/ ~h.status.isint

StatusCode(h) == ParseInt(h.status.code)

\* A loop condition that lets any body through.
BodyNeverChecked(body, cl) == TRUE

\* while len(body) < content_length (client.py 106).
BodyComplete(body, cl) == Size(body) >= cl

DcStart == [pc |-> "hdr", data |-> <<>>, hdr |-> NoHead, body |-> <<>>, cl |-> 0, eof |-> FALSE]

\* The bytes recv can return now: those before the end of the stream.
Available(s) == IF Closed(s) THEN Len(s) - 1 ELSE Len(s)

\* client.py 90-94: one recv of the header loop.  b"" makes the loop return.
DcRecvHeader ==
    /\ dc.pc = "hdr"
    /\ stream # <<>>
    /\ \/ /\ Available(stream) = 0
          /\ dc' = [dc EXCEPT !.pc = "done"]
          /\ UNCHANGED stream
       \/ \E n \in 1 .. Available(stream) :
            /\ stream' = SubSeq(stream, n + 1, Len(stream))
            /\ dc' = [dc EXCEPT !.data = dc.data \o SubSeq(stream, 1, n),
                                !.pc = IF HasTerm(dc.data \o SubSeq(stream, 1, n))
                                       THEN "parse" ELSE "hdr"]
    /\ UNCHANGED <<clientVars, delivered, nframes, enc, ss, app, tx, ed>>

\* client.py 96-105: the header block is split off and parsed; an exception
\* ends the loop (116-118).
DcParse ==
    /\ dc.pc = "parse"
    /\ LET h == ParsedHead(HeaderPart(dc.data))
       IN  dc' = IF LengthError(h) THEN [dc EXCEPT !.pc = "done"]
                 ELSE [dc EXCEPT !.pc = "body", !.hdr = h, !.cl = DeclaredLength(h),
                                 !.body = BodyPart(dc.data)]
    /\ UNCHANGED <<clientVars, stream, delivered, nframes, enc, ss, app, tx, ed>>

\* client.py 106-107: one recv of the body loop.  b"" adds nothing, and the
\* condition of the loop is evaluated again.
DcRecvBody ==
    /\ dc.pc = "body"
    /\ ~BodyComplete(dc.body, dc.cl)
    /\ stream # <<>>
    /\ \/ /\ Available(stream) = 0
          /\ dc' = [dc EXCEPT !.eof = TRUE]
          /\ UNCHANGED stream
       \/ \E n \in 1 .. Available(stream) :
            /\ stream' = SubSeq(stream, n + 1, Len(stream))
            /\ dc' = [dc EXCEPT !.body = dc.body \o SubSeq(stream, 1, n)]
    /\ UNCHANGED <<clientVars, delivered, nframes, enc, ss, app, tx, ed>>

\* What the loop hands on: to handle_incoming_message or to response_queue.
Delivery(to, h, body) == [to |-> to, status |-> StatusCode(h), head |-> h, body |-> body]

\* client.py 109-115, then the top of the loop (89).
DcRoute ==
    /\ dc.pc = "body"
    /\ BodyComplete(dc.body, dc.cl)
    /\ IF StatusError(dc.hdr)
       THEN /\ dc' = [dc EXCEPT !.pc = "done"]
            /\ UNCHANGED delivered
       ELSE /\ dc' = DcStart
            /\ delivered' =
                 IF ~Routed(StatusCode(dc.hdr)) THEN delivered
                 ELSE IF TypeHeader(dc.hdr) = "message"
                      THEN Append(delivered, Delivery("push", dc.hdr, dc.body))
                      ELSE Append(delivered, Delivery("queue", dc.hdr, dc.body))
    /\ UNCHANGED <<clientVars, stream, nframes, enc, ss, app, tx, ed>>

InitDecode ==
    /\ ClientOff
    /\ stream = <<>>
    /\ dc = DcStart
    /\ delivered = <<>>
    /\ nframes = 0
    /\ enc = EncOff
    /\ ss = SsOff
    /\ app = AppOff
    /\ tx = TxOff
    /\ ed = EdOff

DcNext == DcRecvHeader \/ DcParse \/ DcRecvBody \/ DcRoute

NextDecode == SrvSend \/ SrvCut \/ SrvClose \/ DcNext

SpecDecode == InitDecode /\ [][NextDecode]_vars

\* The thread of the loop runs whenever it can take a step.
FairSpecDecode == SpecDecode /\ WF_vars(DcNext)

(* ------------------------------------------------ send_request, in bytes *)

\* The bodies a caller passes: None, b"", or bytes.
NoBody == [none |-> TRUE, bytes |-> <<>>]

SomeBody(b) == [none |-> FALSE, bytes |-> b]

RequestBodies ==
    {NoBody} \cup {SomeBody(b) : b \in UNION {[1 .. n -> {ByteSym, TermSym}] : n \in 0 .. MaxBody}}

\* `if body` (client.py 62, 68): None and b"" are false.
Truthy(body) == ~body.none /\ Len(body.bytes) > 0

\* A Content-Length that is always "0".
LengthAlwaysZero(body) == <<0>>

\* str(len(body)) if body else "0" (client.py 62).
LengthText(body) == IF Truthy(body) THEN DecimalStr(Size(body.bytes)) ELSE <<0>>

\* url (client.py 59-60): the path, with ?key=value&... when there are
\* params.
Url(path, params) == [path |-> path, query |-> params]

\* The start line and the header lines (client.py 64-65).
RequestHead(method, url, lines) ==
    [k |-> "request", method |-> method, url |-> url, lines |-> lines]

\* The bytes send_request hands to sendall (client.py 64-73).
EncodeRequest(method, path, params, body) ==
    <<RequestHead(method, Url(path, params),
                  <<ContentLength("Content-Length", LengthText(body))>>),
      TermSym>>
      \o (IF Truthy(body) THEN body.bytes ELSE <<>>)

Methods == {"GET", "POST"}

Paths == {"/login", "/download"}

ParamSets == {<<>>, <<[key |-> "file", value |-> "a.png"]>>}

\* One call of send_request, up to sendall.
EncCall ==
    /\ enc.pc \in {"idle", "written"}
    /\ \E m \in Methods : \E pa \in Paths : \E ps \in ParamSets : \E b \in RequestBodies :
         enc' = [pc |-> "written", method |-> m, path |-> pa, params |-> ps, body |-> b,
                 request |-> EncodeRequest(m, pa, ps, b)]
    /\ UNCHANGED <<clientVars, stream, dc, delivered, nframes, ss, app, tx, ed>>

InitEncode ==
    /\ ClientOff
    /\ stream = <<>>
    /\ dc = DcOff
    /\ delivered = <<>>
    /\ nframes = 0
    /\ enc = [pc |-> "idle", method |-> "GET", path |-> "/login", params |-> <<>>,
              body |-> NoBody, request |-> <<>>]
    /\ ss = SsOff
    /\ app = AppOff
    /\ tx = TxOff
    /\ ed = EdOff

NextEncode == EncCall

SpecEncode == InitEncode /\ [][NextEncode]_vars

(* ------------------------------------------------------ login and sign_in *)

\* Specification SpecSession applies Client.login and Client.sign_in to the
\* reply send_request returned.  A reply body is JSON or not; as JSON, `id`
\* and `username` are the values .get() returns (0 and "none" for None).
UserIds == {7, 8}

Logins == {"bob", "ann"}

Usernames == {"Bob", "Ann"}

ReplyStatuses == {200, 201, 404}

LoginBodies ==
    [json : BOOLEAN, id : UserIds \cup {0}, username : Usernames \cup {"none"}]

\* A login that assigns nothing.
LoginKeepsSession(sess, login, status, body) ==
    [session |-> sess, result |-> IF body.json THEN "none" ELSE "raised"]

\* Client.login (client.py 185-194) on the reply (status, body): the session
\* fields afterwards and what the call returns; json.loads raises on a body
\* that is no JSON, before anything is assigned.
LoginOutcome(sess, login, status, body) ==
    IF ~body.json THEN [session |-> sess, result |-> "raised"]
    ELSE IF status = 200
         THEN [session |-> [user_id |-> body.id, user_login |-> login,
                            username |-> body.username],
               result |-> body.username]
         ELSE [session |-> sess, result |-> "none"]

\* Client.sign_in (client.py 204-211): it returns nothing.
SignInOutcome(sess, login, username, status, body) ==
    IF ~body.json THEN [session |-> sess, result |-> "raised"]
    ELSE IF status = 201
         THEN [session |-> [user_id |-> body.id, user_login |-> login,
                            username |-> username],
               result |-> "none"]
         ELSE [session |-> sess, result |-> "none"]

SsLogin ==
    /\ ss.pc \in {"idle", "returned"}
    /\ \E l \in Logins : \E st \in ReplyStatuses : \E b \in LoginBodies :
         /\ session' = LoginOutcome(session, l, st, b).session
         /\ ss' = [pc |-> "returned", op |-> "login", login |-> l, username |-> "none",
                   status |-> st, body |-> b, before |-> session,
                   result |-> LoginOutcome(session, l, st, b).result]
    /\ UNCHANGED <<sock, peer, sent, wire, queue, rl, ui, ld, files, cache,
                   chat_frame, selected_chat_id, nreq, npush, nspawn, displayed,
                   stored, overlap, hs, stream, dc, delivered, nframes, enc, app, tx, ed>>

SsSignIn ==
    /\ ss.pc \in {"idle", "returned"}
    /\ \E l \in Logins : \E u \in Usernames : \E st \in ReplyStatuses : \E b \in LoginBodies :
         /\ session' = SignInOutcome(session, l, u, st, b).session
         /\ ss' = [pc |-> "returned", op |-> "sign_in", login |-> l, username |-> u,
                   status |-> st, body |-> b, before |-> session,
                   result |-> SignInOutcome(session, l, u, st, b).result]
    /\ UNCHANGED <<sock, peer, sent, wire, queue, rl, ui, ld, files, cache,
                   chat_frame, selected_chat_id, nreq, npush, nspawn, displayed,
                   stored, overlap, hs, stream, dc, delivered, nframes, enc, app, tx, ed>>

InitSession ==
    /\ ClientOff
    /\ stream = <<>>
    /\ dc = DcOff
    /\ delivered = <<>>
    /\ nframes = 0
    /\ enc = EncOff
    /\ ss = [pc |-> "idle", op |-> "none", login |-> "none", username |-> "none",
             status |-> 0, body |-> [json |-> FALSE, id |-> 0, username |-> "none"],
             before |-> NoSession, result |-> "none"]
    /\ app = AppOff
    /\ tx = TxOff
    /\ ed = EdOff

NextSession == SsLogin \/ SsSignIn

SpecSession == InitSession /\ [][NextSession]_vars

(* ---------------------------------------------------- authentication form *)

\* Submissions of the authentication form over one run of SpecForm.
MaxSubmits == 3

\* The statements that assign user_id, user_login and username run
\* (client.py 186-189 for login, 205-208 for sign_in).
LoginAssigns(status, body) == body.json /\ status = 200

SignInAssigns(status, body) == body.json /\ status = 201

\* AuthFrame after __init__ (auth_frame.py 20-24), on the Client the
\* application made; `assigned` counts the runs of the assigning statements
\* on that Client and `calls` the submissions.
FormShown == [pc |-> "form", is_login_mode |-> TRUE, logged_in |-> FALSE,
              op |-> "none", assigned |-> 0, calls |-> 0]

\* AuthFrame.switch_mode by its button (auth_frame.py 69-81).
AuthSwitchMode ==
    /\ ss.pc = "form"
    /\ ss' = [ss EXCEPT !.is_login_mode = ~@, !.op = "switch_mode"]
    /\ UNCHANGED <<sock, peer, sent, wire, queue, rl, ui, ld, files, cache, session,
                   chat_frame, selected_chat_id, nreq, npush, nspawn, displayed,
                   stored, overlap, hs, stream, dc, delivered, nframes, enc, app, tx, ed>>

\* AuthFrame.authenticate in login mode (auth_frame.py 93-103): a reply the
\* receive loop does not route never reaches login, which waits for ever
\* (client.py 74, 111); a successful login hides the form
\* (show_logged_in), any other outcome leaves it ready for the next
\* submission on the same Client.
AuthLogin ==
    /\ ss.pc = "form"
    /\ ss.is_login_mode
    /\ ss.calls < MaxSubmits
    /\ \E l \in Logins : \E st \in ReplyStatuses : \E b \in LoginBodies :
         LET out == LoginOutcome(session, l, st, b)
             ok == out.result \notin {"raised", "none"} /\ out.session.user_id # 0
         IN  IF ~Routed(st)
             THEN /\ ss' = [ss EXCEPT !.pc = "blocked", !.op = "login", !.calls = @ + 1]
                  /\ UNCHANGED session
             ELSE /\ session' = out.session
                  /\ ss' = [ss EXCEPT !.pc = IF ok THEN "logged_in" ELSE "form",
                                      !.logged_in = ok,
                                      !.op = "login",
                                      !.assigned = IF LoginAssigns(st, b) THEN @ + 1 ELSE @,
                                      !.calls = @ + 1]
    /\ UNCHANGED <<sock, peer, sent, wire, queue, rl, ui, ld, files, cache,
                   chat_frame, selected_chat_id, nreq, npush, nspawn, displayed,
                   stored, overlap, hs, stream, dc, delivered, nframes, enc, app, tx, ed>>

\* AuthFrame.authenticate in registration mode with a username entered
\* (auth_frame.py 104-116): when client.user_id is set after sign_in the
\* form goes back to login mode, on the same Client.
AuthRegister ==
    /\ ss.pc = "form"
    /\ ~ss.is_login_mode
    /\ ss.calls < MaxSubmits
    /\ \E l \in Logins : \E u \in Usernames : \E st \in ReplyStatuses : \E b \in LoginBodies :
         LET out == SignInOutcome(session, l, u, st, b)
         IN  IF ~Routed(st)
             THEN /\ ss' = [ss EXCEPT !.pc = "blocked", !.op = "sign_in", !.calls = @ + 1]
                  /\ UNCHANGED session
             ELSE /\ session' = out.session
                  /\ ss' = [ss EXCEPT !.is_login_mode =
                                          IF out.result # "raised" /\ out.session.user_id # 0
                                          THEN ~@ ELSE @,
                                      !.op = "sign_in",
                                      !.assigned = IF SignInAssigns(st, b) THEN @ + 1 ELSE @,
                                      !.calls = @ + 1]
    /\ UNCHANGED <<sock, peer, sent, wire, queue, rl, ui, ld, files, cache,
                   chat_frame, selected_chat_id, nreq, npush, nspawn, displayed,
                   stored, overlap, hs, stream, dc, delivered, nframes, enc, app, tx, ed>>

InitForm ==
    /\ ClientOff
    /\ stream = <<>>
    /\ dc = DcOff
    /\ delivered = <<>>
    /\ nframes = 0
    /\ enc = EncOff
    /\ ss = FormShown
    /\ app = AppOff
    /\ tx = TxOff
    /\ ed = EdOff

NextForm == AuthSwitchMode \/ AuthLogin \/ AuthRegister

SpecForm == InitForm /\ [][NextForm]_vars

(* ------------------------------------------------------------ reset_client *)

\* Client instances the application makes over one run of SpecReset.
MaxClients == 3

Instances == 1 .. MaxClients

\* An instance not made yet, and a Client after __init__ (client.py 26-40):
\* connected, session fields None.
NotMade == [sock |-> "none", session |-> NoSession]

NewClient == [sock |-> "open", session |-> NoSession]

\* MainApplication after __init__ (main.py 31-44): one Client, held by the
\* application and by the authentication form; `was` keeps the instance a
\* reset replaces and its session at the start of the reset.
\* The notebook after __init__ (main.py 40-58), and the tab the window opens
\* on; username is None, the Gallery and Chats tabs hold the stub frames, the
\* login form is shown; `picked` is the tab the user selected last and
\* `asked` tells whether the last handler called a request method of a Client.
TabsAtStart == <<"Editor", "Authorization", "Gallery", "Chats">>

AppStart ==
    [pc |-> "idle", last |-> "none", client |-> 1, auth |-> 1, made |-> 1,
     clients |-> [i \in Instances |-> IF i = 1 THEN NewClient ELSE NotMade],
     was |-> [client |-> 0, session |-> NoSession],
     username |-> "none", chat_widget |-> "stub", gallery_widget |-> "stub",
     tabs |-> TabsAtStart, selected |-> "Editor", hidden |-> FALSE,
     picked |-> "Editor", origin |-> "none", asked |-> FALSE]

\* notebook.forget(w) then notebook.add(w, text = t): the tab goes to the end.
ForgetAndAdd(tabs, t) == Append(SelectSeq(tabs, LAMBDA x : x # t), t)

\* main.py 75-88: the username, ChatFrame and GalleryFrame in place of the
\* stubs, and load_gallery on the new GalleryFrame.
OnLoginSuccess(a, username) ==
    [a EXCEPT !.username = username,
              !.chat_widget = "ChatFrame", !.gallery_widget = "GalleryFrame",
              !.tabs = ForgetAndAdd(ForgetAndAdd(@, "Chats"), "Gallery"),
              !.asked = TRUE]

\* A tab handler that asks nobody to log in.
NeverNeedsLogin(tab_text, username) == FALSE

\* main.py 102: `tab_text in ["Gallery", "Chats"] and not self.username`.
NeedsLogin(tab_text, username) ==
    tab_text \in {"Gallery", "Chats"} /\ username = "none"

\* check_authentication (main.py 99-110) on the selected tab: select(1) is
\* the second tab of the notebook; load_chats and load_gallery exist on
\* ChatFrame and GalleryFrame only (hasattr, main.py 106, 109).
CheckAuthentication(a) ==
    IF NeedsLogin(a.selected, a.username)
    THEN [a EXCEPT !.selected = a.tabs[2], !.asked = FALSE]
    ELSE IF a.selected = "Chats"
         THEN [a EXCEPT !.asked = (a.chat_widget = "ChatFrame")]
         ELSE IF a.selected = "Gallery"
              THEN [a EXCEPT !.asked = (a.gallery_widget = "GalleryFrame")]
              ELSE [a EXCEPT !.asked = FALSE]

\* The Client EditorFrame.upload uses: self.parent.client, where parent is
\* the application (editor_frame.py 39, 271).
EditorClient(a) == a.client

\* A reset that leaves the authentication form on the old Client.
RebindApplicationOnly(a, n) == [a EXCEPT !.client = n]

\* main.py 139-141: the application and the authentication form take the
\* new Client; editor_frame.parent is the application itself.
Rebind(a, n) == [a EXCEPT !.client = n, !.auth = n]

resetOthers ==
    <<clientVars, stream, dc, delivered, nframes, enc, ss, tx, ed>>

\* AuthFrame.authenticate in login mode, a login answered 200
\* (auth_frame.py 95-99, client.py 186-189): the Client of the form takes
\* the session.
AppLogin ==
    /\ app.pc = "idle"
    /\ app.selected = "Authorization"
    /\ ~app.hidden
    /\ app.clients[app.auth].sock = "open"
    /\ \E l \in Logins : \E b \in LoginBodies :
         LET out == LoginOutcome(app.clients[app.auth].session, l, 200, b)
             a == [app EXCEPT !.clients[app.auth].session = out.session,
                              !.last = "login", !.asked = TRUE]
         IN  app' = IF out.result \notin {"raised", "none"} /\ out.session.user_id # 0
                    THEN [OnLoginSuccess(a, out.result) EXCEPT !.hidden = TRUE]
                    ELSE a
    /\ UNCHANGED resetOthers

\* The user selects a tab: <<NotebookTabChanged>> runs check_authentication
\* (main.py 60, 90-110).
AppSelectTab ==
    /\ app.pc = "idle"
    /\ \E i \in 1 .. Len(app.tabs) :
         /\ app.tabs[i] # app.selected
         /\ app' = [CheckAuthentication([app EXCEPT !.selected = app.tabs[i],
                                                      !.picked = app.tabs[i]])
                       EXCEPT !.last = "tab"]
    /\ UNCHANGED resetOthers

\* reset_client, called by AuthFrame.logout (the button of the logged-in
\* form, auth_frame.py 137) or by on_close (main.py 113), up to Client.exit
\* (main.py 125-136, client.py 469-481): exit
\* closes the socket in its finally, when send_request has returned or
\* raised; it never gets there when the reply to /exit does not reach it
\* (client.py 74).
ResetExit ==
    /\ app.pc = "idle"
    /\ app.made < MaxClients
    /\ \E returns \in BOOLEAN : \E origin \in {"logout", "close"} :
         /\ origin = "logout" => (app.hidden /\ app.selected = "Authorization")
         /\ app' = [app EXCEPT !.pc = IF returns THEN "exited" ELSE "blocked",
                            !.origin = origin, !.asked = TRUE,
                            !.clients[app.client].sock = IF returns THEN "closed" ELSE @,
                            !.was = [client |-> app.client,
                                     session |-> app.clients[app.client].session]]
    /\ UNCHANGED resetOthers

\* main.py 142-150: no username, the stub frames back in the notebook.
ResetFrames(a) ==
    [a EXCEPT !.username = "none",
              !.chat_widget = "stub", !.gallery_widget = "stub",
              !.tabs = ForgetAndAdd(ForgetAndAdd(@, "Chats"), "Gallery")]

\* After reset_client: AuthFrame.logout shows the login form again, whether
\* reset_client raised or not (auth_frame.py 137-146); on_close destroys the
\* window when reset_client returned (main.py 113-114).
AfterReset(a, raised) ==
    IF a.origin = "logout" THEN [a EXCEPT !.pc = "idle", !.hidden = FALSE]
    ELSE [a EXCEPT !.pc = IF raised THEN "idle" ELSE "destroyed"]

\* main.py 138-150: the new Client, and the references to it; connect
\* raising (client.py 39) ends reset_client with the references as they were.
ResetRebind ==
    /\ app.pc = "exited"
    /\ \E connects \in BOOLEAN :
         app' = IF connects
                THEN AfterReset(ResetFrames(
                         [Rebind(app, app.made + 1) EXCEPT
                             !.last = "reset", !.made = @ + 1, !.asked = FALSE,
                             !.clients[app.made + 1] = NewClient]), FALSE)
                ELSE AfterReset([app EXCEPT !.last = "reset_raised",
                                            !.asked = FALSE], TRUE)
    /\ UNCHANGED resetOthers

InitReset ==
    /\ ClientOff
    /\ stream = <<>>
    /\ dc = DcOff
    /\ delivered = <<>>
    /\ nframes = 0
    /\ enc = EncOff
    /\ ss = SsOff
    /\ app = AppStart
    /\ tx = TxOff
    /\ ed = EdOff

NextReset == AppLogin \/ AppSelectTab \/ ResetExit \/ ResetRebind

SpecReset == InitReset /\ [][NextReset]_vars

(* ------------------------------------------------- sendall, by two threads *)

\* send_request calls of one thread over one run of SpecWrite.
MaxWrites == 2

\* Pieces the bytes of one request fall into: what one send of the socket
\* may take at a time.
RequestParts == 2

\* The threads that call send_request: the Tk main thread (the handlers) and
\* a thread of try_load_image (chat_frame.py 203, 233).
Callers == {"main", "loader"}

TxStart ==
    [pc |-> [t \in Callers |-> "idle"], cur |-> [t \in Callers |-> 0],
     left |-> [t \in Callers |-> 0], calls |-> [t \in Callers |-> 0],
     n |-> 0, out |-> <<>>]

\* The pieces `from + 1 .. from + k` of request r, as the socket takes them.
Pieces(r, from, k) == [i \in 1 .. k |-> [req |-> r, part |-> from + i]]

writeOthers ==
    <<clientVars, stream, dc, delivered, nframes, enc, ss, app, ed>>

\* send_request up to sendall (client.py 59-73): the request is built; no
\* lock is taken.
TxCall(t) ==
    /\ tx.pc[t] = "idle"
    /\ tx.calls[t] < MaxWrites
    /\ tx' = [tx EXCEPT !.pc[t] = "sendall", !.cur[t] = tx.n + 1, !.n = @ + 1,
                        !.left[t] = RequestParts, !.calls[t] = @ + 1]
    /\ UNCHANGED writeOthers

\* client_socket.sendall (client.py 73): it sends until the whole request is
\* written, some pieces at a time; between two sends of one thread another
\* thread may run.
TxSend(t) ==
    /\ tx.pc[t] = "sendall"
    /\ \E k \in 1 .. tx.left[t] :
         tx' = [tx EXCEPT !.out = @ \o Pieces(tx.cur[t], RequestParts - tx.left[t], k),
                          !.left[t] = @ - k,
                          !.pc[t] = IF tx.left[t] = k THEN "wait" ELSE "sendall"]
    /\ UNCHANGED writeOthers

\* response_queue.get() returns (client.py 74).
TxReturn(t) ==
    /\ tx.pc[t] = "wait"
    /\ tx' = [tx EXCEPT !.pc[t] = "idle"]
    /\ UNCHANGED writeOthers

InitWrite ==
    /\ ClientOff
    /\ stream = <<>>
    /\ dc = DcOff
    /\ delivered = <<>>
    /\ nframes = 0
    /\ enc = EncOff
    /\ ss = SsOff
    /\ app = AppOff
    /\ tx = TxStart
    /\ ed = EdOff

NextWrite ==
    \/ \E t \in Callers : TxCall(t)
    \/ \E t \in Callers : TxSend(t)
    \/ \E t \in Callers : TxReturn(t)

SpecWrite == InitWrite /\ [][NextWrite]_vars

(* ------------------------------------------------------------------ Editor *)

\* The longest side of an image SpecEditor loads.
MaxSide == 2

\* An image, by its size and its orientation in quarter turns; None before
\* an image is loaded (editor.py 22-23).
NoImage == [w |-> 0, h |-> 0, turn |-> 0]

Images == [w : 1 .. MaxSide, h : 1 .. MaxSide, turn : {0}]

\* The angles of the two rotate buttons (editor_frame.py 372-373).
Angles == {90, 270}

Min(a, b) == IF a < b THEN a ELSE b

\* Image.rotate(angle, expand=True) by a multiple of 90 degrees
\* (editor.py 223): the sides change places on an odd number of quarter turns.
Rotate(img, angle) ==
    [w |-> img.h, h |-> img.w, turn |-> (img.turn + angle \div 90) % 4]

\* crop_rect (editor.py 205-213), on coordinates that are not negative: the
\* box clamped to the image, cropped when
\* it is not empty.
CropRect(img, left, top, right, bottom) ==
    LET l == Min(left, img.w)
        r == Min(right, img.w)
        t == Min(top, img.h)
        b == Min(bottom, img.h)
    IN  IF r > l /\ b > t THEN [img EXCEPT !.w = r - l, !.h = b - t] ELSE img

\* Editor after __init__ (editor.py 21-25); `op` and `prev` are the last two
\* operations called, `before` and `edited` the current image before and
\* after the last editing operation.
EdStart ==
    [pc |-> "on", original_image |-> NoImage, current_image |-> NoImage,
     undo_stack |-> <<>>, redo_stack |-> <<>>,
     op |-> "none", prev |-> "none", before |-> NoImage, edited |-> NoImage]

edOthers ==
    <<clientVars, stream, dc, delivered, nframes, enc, ss, app, tx>>

Called(e, name) == [e EXCEPT !.op = name, !.prev = e.op]

Edited(e, name, img) ==
    [Called(e, name) EXCEPT !.before = e.current_image, !.current_image = img,
                            !.edited = img]

\* load_image (editor.py 34-38).
EdLoadImage ==
    /\ ed.pc = "on"
    /\ \E img \in Images :
         ed' = [Called(ed, "load") EXCEPT !.original_image = img,
                                         !.current_image = img,
                                         !.undo_stack = <<>>, !.redo_stack = <<>>]
    /\ UNCHANGED edOthers

\* reset (editor.py 44-45).
EdReset ==
    /\ ed.pc = "on"
    /\ ed' = IF ed.original_image # NoImage
             THEN [Called(ed, "reset") EXCEPT !.current_image = ed.original_image]
             ELSE Called(ed, "reset")
    /\ UNCHANGED edOthers

\* rotate_image (editor.py 221-223), from rotate_and_refresh
\* (editor_frame.py 337).
EdRotateImage ==
    /\ ed.pc = "on"
    /\ \E angle \in Angles :
         ed' = IF ed.current_image = NoImage THEN Called(ed, "rotate")
               ELSE Edited(ed, "rotate", Rotate(ed.current_image, angle))
    /\ UNCHANGED edOthers

\* crop_rect (editor.py 202-213), from finish_crop (editor_frame.py 450).
EdCropRect ==
    /\ ed.pc = "on"
    /\ \E left, right, top, bottom \in 0 .. MaxSide :
         ed' = IF ed.current_image = NoImage THEN Called(ed, "crop")
               ELSE Edited(ed, "crop",
                           CropRect(ed.current_image, left, top, right, bottom))
    /\ UNCHANGED edOthers

\* undo (editor.py 51-53).
EdUndo ==
    /\ ed.pc = "on"
    /\ ed' = IF ed.undo_stack # <<>>
             THEN [Called(ed, "undo") EXCEPT
                      !.redo_stack = Append(@, ed.current_image),
                      !.current_image = ed.undo_stack[Len(ed.undo_stack)],
                      !.undo_stack = SubSeq(@, 1, Len(@) - 1)]
             ELSE Called(ed, "undo")
    /\ UNCHANGED edOthers

\* redo (editor.py 59-61).
EdRedo ==
    /\ ed.pc = "on"
    /\ ed' = IF ed.redo_stack # <<>>
             THEN [Called(ed, "redo") EXCEPT
                      !.undo_stack = Append(@, ed.current_image),
                      !.current_image = ed.redo_stack[Len(ed.redo_stack)],
                      !.redo_stack = SubSeq(@, 1, Len(@) - 1)]
             ELSE Called(ed, "redo")
    /\ UNCHANGED edOthers

InitEditor ==
    /\ ClientOff
    /\ stream = <<>>
    /\ dc = DcOff
    /\ delivered = <<>>
    /\ nframes = 0
    /\ enc = EncOff
    /\ ss = SsOff
    /\ app = AppOff
    /\ tx = TxOff
    /\ ed = EdStart

NextEditor ==
    EdLoadImage \/ EdReset \/ EdRotateImage \/ EdCropRect \/ EdUndo \/ EdRedo

SpecEditor == InitEditor /\ [][NextEditor]_vars

(* ---------------------------------------------------------------- claims *)

\* The reply to request i is on its way to the call that waits for it: the
\* request is still unread by the server, or its Response is on the wire or
\* on response_queue.
ReplyInTransit(i) ==
    \/ \E j \in 1 .. Len(sent) : sent[j].id = i
    \/ \E j \in 1 .. Len(wire) : wire[j].kind = "frame" /\ ~IsPush(wire[j]) /\ wire[j].req = i
    \/ \E j \in 1 .. Len(queue) : queue[j].req = i

\* C1: with requests issued strictly one at a time, every send_request call
\* returns the Response frame the server sent in reply to its own request,
\* whatever status that frame carries: while a call waits and the server is
\* up, its reply is never lost, and what a call returns is the reply to the
\* request it wrote.
C1_OrdinalCorrelation ==
    (~overlap /\ peer = "up") =>
        /\ ui.pc = "wait" => ReplyInTransit(ui.req)
        /\ ui.pc = "ret" => ui.resp.req = ui.req
        /\ \A k \in Loaders :
             /\ ld[k].pc = "wait" => ReplyInTransit(ld[k].req)
             /\ ld[k].pc = "ret" => ld[k].resp.req = ld[k].req

\* The receive loop takes the next frame off the connection.
RlTakes == rl.pc = "recv" /\ sock = "open" /\ wire # <<>> /\ wire' = Tail(wire)

\* C2: a Push frame (Type: message) that arrives while a send_request call is
\* blocked is handed to handle_incoming_message, nothing is put on
\* response_queue for it, and the blocked call keeps waiting.
C2_PushNotConsumed ==
    [][(RlTakes /\ Head(wire).kind = "frame" /\ IsPush(Head(wire)) /\ InFlight > 0)
         => /\ rl'.pc = "handle"
            /\ rl'.frame = Head(wire)
            /\ queue' = queue
            /\ ui' = ui
            /\ ld' = ld]_vars

\* C3: when the server answers a request with a non-2xx status, the reply
\* reaches the call that issued the request, so that the facade operation
\* returns its failure outcome instead of blocking; a login that returns a
\* failure leaves the session as it was and the connection open.
C3_FailureSurfaced ==
    [][/\ (RlTakes /\ Head(wire).kind = "frame" /\ ~IsPush(Head(wire))
             /\ Head(wire).status \notin {200, 201})
          => queue' = Append(queue, Head(wire))
       /\ (ui.pc = "ret" /\ ui.op = "login" /\ ui.resp.status # 200 /\ ui' # ui)
          => (ui' = Idle /\ session' = session /\ sock' = "open")]_vars

\* C4: at most one request is in flight on the Client in every reachable
\* state of the application; stated here for the states in which the server
\* is still there to answer.
C4_OneInFlight == peer = "up" => InFlight <= 1

\* C5: appends to one chat's log are serialized: whenever no save_message is
\* in the middle of writing the log of a chat, the log is readable and holds
\* every message whose save_message has returned.
C5_AppendsSerialized ==
    \A c \in Chats :
        (/\ ~(ui.pc = "save_dump" /\ ui.chat = c)
         /\ ~(rl.pc = "save_dump" /\ rl.frame.chat = c))
        => /\ files[c].state # "torn"
           /\ stored[c] \subseteq Range(files[c].log)

\* C6: with no concurrent writer, load_chat_history(chat_id) after
\* save_message(chat_id, m) is the sequence it returned before the call with
\* m appended at the end, and the log exists.
C6_SaveThenLoad ==
    hs.pc = "returned" =>
        /\ files[hs.chat].state = "ok"
        /\ LoadChatHistory(hs.chat) = [ok |-> TRUE, log |-> hs.before \o <<hs.msg>>]

\* C6, its case: a save returned on a log that held two records or more,
\* one of them equal to the message saved.
C6_Witness ==
    /\ hs.pc = "returned"
    /\ Len(hs.before) >= 2
    /\ hs.msg \in Range(hs.before)
    /\ hs.before[Len(hs.before)] # hs.msg

\* C7: the receive loop never waits on application work: the thread of the
\* loop is never itself inside the storage write or the observer
\* notification that a Push frame triggers.
C7_LoopNeverWaits == rl.pc \notin {"save_read", "save_open", "save_dump", "notify"}

\* A push body that cannot be parsed, or is no message envelope.
Malformed(f) == IsPush(f) /\ f.body \in {"garbage", "notobj"}

\* C8: a Push frame with a malformed body is dropped: handling it leaves the
\* loop running, the logs and response_queue as they were, and the frame
\* that follows it is still routed: a Response that follows reaches
\* response_queue for the pending caller.
C8_MalformedPushDropped ==
    [][/\ (rl.pc = "handle" /\ Malformed(rl.frame) /\ rl' # rl)
          => (rl'.pc = "recv" /\ files' = files /\ queue' = queue)
       /\ (RlTakes /\ Malformed(rl.frame) /\ Head(wire).kind = "frame" /\ ~IsPush(Head(wire)))
          => queue' = Append(queue, Head(wire))]_vars

Count(log, m) == Cardinality({i \in 1 .. Len(log) : log[i] = m})

\* C9: when the loop is done with a Push frame whose body carries chat_id c,
\* the log of chat c holds exactly one record of it, and display_message was
\* called for it if and only if the observer's selected_chat_id is c.
C9_PushStoredAndShown ==
    [][(rl'.pc = "recv" /\ rl' # rl /\ IsPush(rl'.frame) /\ rl'.frame.body = "msg")
         => LET f == rl'.frame
            IN  /\ files'[f.chat].state = "ok"
                /\ Count(files'[f.chat].log, Message("push", f.n, f.chat, f.mtype)) = 1
                /\ (f.n \in displayed') <=> (chat_frame /\ selected_chat_id = f.chat)]_vars

\* C10: every call to exit() eventually closes the client's socket.
C10_ExitCloses == (ui.op = "exit") ~> (sock = "closed")

\* C11: when the receive loop has terminated while a send_request call of
\* the main thread is waiting for its reply (the call was issued before or
\* after the loop ended), the call does not wait forever: it fails or
\* returns.
C11_LoopEndFailsCall == (rl.pc = "done" /\ ui.pc = "wait") ~> (ui.pc # "wait")

\* C12: whenever the peer closes the connection, the receive loop
\* eventually terminates, when the close comes while the header block is
\* read as well as when it comes after the terminator with body bytes
\* missing.
C12_CloseEndsLoop == Closed(stream) ~> (dc.pc = "done")

\* C13: the loop never routes a frame whose buffered body is shorter than
\* the Content-Length it declares, and while bytes of a body are missing
\* nothing has been routed for that frame.
C13_NoShortBody ==
    /\ \A i \in 1 .. Len(delivered) :
         Size(delivered[i].body) >= DeclaredLength(delivered[i].head)
    /\ (dc.pc = "body" /\ Size(dc.body) < dc.cl)
         => \A i \in 1 .. Len(delivered) : delivered[i].head.n # dc.hdr.n

\* C13, its case: the peer closed while a byte of a declared body was
\* missing, recv has returned b"", and a frame was routed before.
C13_Witness ==
    /\ dc.pc = "body"
    /\ dc.eof
    /\ Size(dc.body) < dc.cl
    /\ delivered # <<>>

\* C14: for every way the stream is cut into recv chunks, the body of each
\* routed frame is exactly Content-Length bytes long (0 when the header is
\* absent): the bytes that follow the frame's terminator, no fewer, no more.
C14_BodyIsDeclaredLength ==
    \A i \in 1 .. Len(delivered) :
        /\ Size(delivered[i].body) = DeclaredLength(delivered[i].head)
        /\ Size(delivered[i].head.payload) = DeclaredLength(delivered[i].head)
             => delivered[i].body = delivered[i].head.payload

\* C15: a body that holds the bytes \r\n\r\n is delivered unchanged and in
\* full.
C15_OpaqueBody ==
    \A i \in 1 .. Len(delivered) :
        HasTerm(delivered[i].head.payload)
            => delivered[i].body = delivered[i].head.payload

\* A header line named Type, in any letter case, with value message.
HasTypeMessage(h) ==
    \E i \in 1 .. Len(h.lines) :
        h.lines[i].key \in {"Type", "TYPE", "type"} /\ h.lines[i].text = "message"

\* C17: a decoded frame is routed as a Push if and only if it has a header
\* named Type (in any letter case) with value message; every other frame,
\* whatever its status, is put on the response queue.
C17_RoutedByType ==
    [][(dc.pc = "body" /\ dc'.pc = "hdr")
         => IF HasTypeMessage(dc.hdr)
            THEN delivered' = Append(delivered, Delivery("push", dc.hdr, dc.body))
            ELSE delivered' = Append(delivered, Delivery("queue", dc.hdr, dc.body))]_vars

\* A status line with no second token, or one that is no integer.
MalformedStatusLine(h) == h.status.ntok < 2 \/ ~h.status.isint

\* C18: a frame whose status line is malformed ends the receive loop:
\* nothing is routed for it, and once the loop has ended no later frame is
\* decoded on the connection.
C18_BadStatusEndsLoop ==
    [][/\ (dc.pc = "body" /\ MalformedStatusLine(dc.hdr))
          => (delivered' = delivered /\ dc'.pc \in {"body", "done"})
       /\ (dc.pc = "body" /\ MalformedStatusLine(dc.hdr) /\ Size(dc.body) >= dc.cl /\ dc' # dc)
          => dc'.pc = "done"
       /\ dc.pc = "done" => (dc' = dc /\ delivered' = delivered)]_vars

\* C18, its case: the loop has ended on the malformed status line of a
\* frame the server sent, and bytes of a later frame are left unread.
C18_Witness ==
    /\ dc.pc = "done"
    /\ dc.hdr.n > 0
    /\ MalformedStatusLine(dc.hdr)
    /\ \E i \in 1 .. Len(stream) : stream[i].k = "head"

\* A decimal text as str() writes it: digits, with no leading zero.
Canonical(ds) ==
    /\ Len(ds) >= 1
    /\ \A i \in 1 .. Len(ds) : ds[i] \in 0 .. 9
    /\ Len(ds) > 1 => ds[1] # 0

\* C16: every request written by send_request is the start line, one
\* Content-Length header whose value is the exact byte length of the body
\* ("0" when the body is None or empty), the empty line, and exactly that
\* many body bytes.
C16_RequestFraming ==
    enc.pc = "written" =>
        LET r == enc.request
            given == IF enc.body.none THEN <<>> ELSE enc.body.bytes
        IN  /\ r[1] = RequestHead(enc.method, Url(enc.path, enc.params), r[1].lines)
            /\ Len(r[1].lines) = 1
            /\ r[1].lines[1].key = "Content-Length"
            /\ Canonical(r[1].lines[1].digits)
            /\ ParseInt(r[1].lines[1].digits) = Size(given)
            /\ Size(given) = 0 => r[1].lines[1].digits = <<0>>
            /\ r[2] = TermSym
            /\ SubSeq(r, 3, Len(r)) = given

\* C16, its case: a request was written whose body is ten bytes or more and
\* holds the bytes \r\n\r\n.
C16_Witness ==
    /\ enc.pc = "written"
    /\ ~enc.body.none
    /\ Size(enc.body.bytes) >= 10
    /\ HasTerm(enc.body.bytes)
    /\ Len(enc.request) = 2 + Len(enc.body.bytes)

\* C19: when the reply to login(login, password) has status 200 and a body
\* with the fields id and username, user_id becomes that id, user_login the
\* login argument, username that username, and login returns that username.
C19_LoginSetsSession ==
    (/\ ss.pc = "returned"
     /\ ss.op = "login"
     /\ ss.status = 200
     /\ ss.body.json
     /\ ss.body.id # 0
     /\ ss.body.username # "none")
    => /\ session.user_id = ss.body.id
       /\ session.user_login = ss.login
       /\ session.username = ss.body.username
       /\ ss.result = ss.body.username

\* C19, its case: a login answered with 200 has returned on a Client whose
\* three session fields all held other values before.
C19_Witness ==
    /\ ss.pc = "returned"
    /\ ss.op = "login"
    /\ ss.status = 200
    /\ ss.body.json
    /\ ss.body.id \notin {0, ss.before.user_id}
    /\ ss.body.username \notin {"none", ss.before.username}
    /\ ss.before.user_id # 0
    /\ ss.before.user_login \notin {"none", ss.login}

\* C20: a login whose reply is not status 200 returns the failure indicator
\* and leaves user_id, user_login and username as they were: the reply with
\* that status reaches the waiting call, and when the call returns on it the
\* session is untouched and the handler is back at rest.
C20_FailedLoginReturns ==
    [][/\ (RlTakes /\ ui.pc = "wait" /\ ui.op = "login" /\ Head(wire).kind = "frame"
             /\ ~IsPush(Head(wire)) /\ Head(wire).req = ui.req /\ Head(wire).status # 200)
          => Head(wire) \in Range(queue')
       /\ (ui.pc = "ret" /\ ui.op = "login" /\ ui.resp.status # 200 /\ ui' # ui)
          => (session' = session /\ ui'.pc = "idle")]_vars

\* C21: over the lifetime of one Client, for every sequence of login and
\* sign_in calls the authentication form can make on it, the session fields
\* user_id, user_login and username are assigned at most once.
C21_SessionAssignedOnce == ss.assigned <= 1

\* The record save_message writes for the send_message call of the main thread.
SentMessage == Message("local", ui.req, ui.chat, ui.mtype)

\* The main thread leaves Client.send_message: by its last statement or by
\* an exception.
SendMessageEnds ==
    /\ ui.op = "send_message"
    /\ ui.pc \in {"ret", "save_read", "save_open", "save_dump"}
    /\ ui'.pc \in {"display", "idle"}

\* C22: send_message appends its message to the local log of chat_id if and
\* only if the reply to its /send_message request has status 200: when the
\* call ends after such a reply the log of the chat holds the message, and
\* the call writes to a log only after such a reply and only to the log of
\* chat_id.
C22_AppendIffOk ==
    [][/\ (SendMessageEnds /\ ui.resp.req = ui.req /\ ParsesAsJson(ui.resp)
              /\ ui.resp.status = 200)
          => (files'[ui.chat].state = "ok"
                 /\ SentMessage \in Range(files'[ui.chat].log))
       /\ (ui.pc \in {"ret", "save_read", "save_open", "save_dump"} /\ ui' # ui
              /\ rl' = rl /\ files' # files)
          => (ui.op = "send_message" /\ ui.resp.status = 200
                 /\ \A c \in Chats \ {ui.chat} : files'[c] = files[c])]_vars

\* C23: a send_message that did not append is surfaced to its caller:
\* send_text_message displays as sent only a message whose save_message
\* returned.
C23_FailedSendNotShown ==
    [][(ui.pc = "display" /\ ui.mtype = "text" /\ ui'.pc = "idle")
          => SentMessage \in stored[ui.chat]]_vars

\* C24: when the server answers /download with a failure status (404) and a
\* JSON body, the reply reaches the download call that waits for it, download
\* returns None, and download_and_cache returns without creating a cache
\* file.
C24_DownloadNotFound ==
    [][/\ (RlTakes /\ Head(wire).kind = "frame" /\ ~IsPush(Head(wire))
             /\ Head(wire).status = 404 /\ ParsesAsJson(Head(wire))
             /\ ui.pc = "wait" /\ ui.op = "download" /\ Head(wire).req = ui.req)
          => queue' = Append(queue, Head(wire))
       /\ (ui.pc = "ret" /\ ui.op = "download" /\ ui.resp.status # 200 /\ ui' # ui)
          => (ui' = Idle /\ cache' = cache)]_vars

\* C25: for one image message the loader makes at most LoadAttempts (5)
\* attempts; it stops at the first success; it surfaces the failure only
\* after 5 failed attempts, and then does nothing more, so the failure is
\* surfaced once; it starts no attempt after the fifth.
C25_LoaderBounded ==
    [][\A k \in Loaders :
         /\ ld'[k].tries <= LoadAttempts
         /\ ld[k].pc \in {"loaded", "failed"} => ld'[k] = ld[k]
         /\ ld'[k].pc = "failed" => ld'[k].tries = LoadAttempts
         /\ (ld[k].pc = "check" /\ ld[k].tries = LoadAttempts /\ ld'[k] # ld[k])
               => ld'[k].pc = "failed"
         /\ ld'[k].tries \in {ld[k].tries, ld[k].tries + 1}]_vars

\* A loader has failed five times and has surfaced the failure.
C25_Witness == \E k \in Loaders : ld[k].pc = "failed" /\ ld[k].tries = LoadAttempts

\* C26: the cache is consulted before downloading: when the cached file of
\* an image exists, download_and_cache (gallery) and try_load_image (chat)
\* write no /download request and leave the cached file as it is.
C26_CacheFirst ==
    [][/\ (ui.pc = "gcheck" /\ cache[GalleryCache] # "none" /\ ui' # ui)
          => (nreq' = nreq /\ sent' = sent /\ cache' = cache /\ ui'.pc = "thumbnail")
       /\ \A k \in Loaders :
            (ld[k].pc = "check" /\ cache[ld[k].chat] # "none" /\ ld'[k] # ld[k])
               => (nreq' = nreq /\ sent' = sent /\ cache' = cache)]_vars

\* download_and_cache has returned the path of a file that was cached
\* already, without a request.
C26_Witness ==
    ui.pc = "thumbnail" /\ ui.op = "none" /\ cache[GalleryCache] # "none"

\* C27: after reset_client the socket of the old Client is closed; the
\* application, the authentication form and the editor all reference one
\* new Client whose session fields are unset; and the session fields of the
\* old instance are as they were, not reset in place.
C27_ResetReplacesClient ==
    (app.pc \in {"idle", "destroyed"} /\ app.last = "reset")
       => /\ app.clients[app.was.client].sock = "closed"
          /\ app.client # app.was.client
          /\ app.auth = app.client
          /\ EditorClient(app) = app.client
          /\ app.clients[app.client] = NewClient
          /\ app.clients[app.was.client].session = app.was.session

\* A logged-in Client has been replaced by reset_client.
C27_Witness ==
    /\ app.pc = "idle"
    /\ app.last = "reset"
    /\ app.was.session.user_id # 0

\* C28: in every interleaving of the threads that call send_request, the
\* bytes of two requests are never interleaved on the socket: between two
\* pieces of one request there is no piece of another.
C28_RequestsNotInterleaved ==
    \A i \in 1 .. Len(tx.out) : \A j \in i .. Len(tx.out) : \A k \in j .. Len(tx.out) :
        tx.out[i].req = tx.out[k].req => tx.out[j].req = tx.out[i].req

\* C29: the logs of different chats are independent: save_message(c, m)
\* leaves the log of every other chat as it was, and load_chat_history of a
\* chat that has no log returns the empty sequence without creating a log.
C29_LogsIndependent ==
    [][/\ \A c \in Chats : (hs.pc # "idle" /\ c # hs.chat) => files'[c] = files[c]
       /\ (hs.pc = "idle" /\ hs'.pc = "save_read")
             => /\ files' = files
                /\ files[hs'.chat] = AbsentFile => hs'.before = <<>>]_vars

\* A save has returned for one chat while another chat holds a log of its own.
C29_Witness ==
    /\ hs.pc = "returned"
    /\ \E c \in Chats \ {hs.chat} : files[c].state = "ok" /\ Len(files[c].log) >= 1

\* The bytes of `body` that lie past its first `cl` bytes: what the loop has
\* read beyond the end of the frame it is about to route.
PastEnd(body, cl) ==
    LET n == CHOOSE i \in 0 .. Len(body) :
                 /\ Size(SubSeq(body, 1, i)) >= cl
                 /\ \A j \in 0 .. i - 1 : Size(SubSeq(body, 1, j)) < cl
    IN  SubSeq(body, n + 1, Len(body))

\* C30: for every way the stream is cut into recv chunks, two frames in one
\* chunk included, every frame is decoded and routed once and in arrival
\* order: the frames routed are in the order the server wrote them, none
\* twice, and the bytes the loop has read past the end of a frame are kept
\* as the start of the next one.
C30_FramesInOrder ==
    [][/\ \A i \in 1 .. Len(delivered') : \A j \in i + 1 .. Len(delivered') :
            delivered'[i].head.n < delivered'[j].head.n
       /\ (dc.pc = "body" /\ dc'.pc = "hdr") => dc'.data = PastEnd(dc.body, dc.cl)]_vars

\* The record the receive thread stores for the push it is handling.
PushedMessage == Message("push", rl.frame.n, rl.frame.chat, rl.frame.mtype)

\* C31: push handling is ordered store-then-notify: whenever display_message
\* is called for a pushed message, that message is the last record of its
\* chat's log, and a push whose store step fails does not notify the
\* observer.
C31_StoreThenNotify ==
    [][/\ (rl.pc = "notify" /\ displayed' # displayed)
          => /\ files[rl.frame.chat].state = "ok"
             /\ files[rl.frame.chat].log # <<>>
             /\ files[rl.frame.chat].log[Len(files[rl.frame.chat].log)] = PushedMessage
       /\ (rl.pc \in {"save_read", "save_open"} /\ rl'.pc = "recv")
          => displayed' = displayed]_vars

\* Line i is the last line of `lines` whose name is one of `names`.
LastNamed(lines, i, names) ==
    lines[i].key \in names /\ \A j \in i + 1 .. Len(lines) : lines[j].key \notin names

LengthNames == {"Content-Length", "content-length"}

TypeNames == {"Type", "TYPE", "type"}

\* C32: the decoded header mapping has case-insensitive keys and keeps, of a
\* header that occurs more than once, the value of its last occurrence: the
\* body length is the value of the last Content-Length line and the Type of
\* the frame the value of the last Type line, whatever the letter case of
\* their names, and 0 and "response" when there is none.
C32_HeaderMapping ==
    [][(dc.pc = "parse" /\ dc'.pc = "body")
         => LET h == dc'.hdr
            IN  /\ \A i \in 1 .. Len(h.lines) :
                     /\ LastNamed(h.lines, i, LengthNames)
                           => dc'.cl = ParseInt(h.lines[i].digits)
                     /\ LastNamed(h.lines, i, TypeNames)
                           => TypeHeader(h) = h.lines[i].text
                /\ (\A i \in 1 .. Len(h.lines) : h.lines[i].key \notin LengthNames)
                      => dc'.cl = 0
                /\ (\A i \in 1 .. Len(h.lines) : h.lines[i].key \notin TypeNames)
                      => TypeHeader(h) = "response"]_vars

\* A frame was decoded that gives Content-Length twice, under two spellings
\* and with two values.
C32_Witness ==
    /\ dc.pc = "body"
    /\ \E i \in 1 .. Len(dc.hdr.lines) : \E j \in i + 1 .. Len(dc.hdr.lines) :
         /\ dc.hdr.lines[i].key \in LengthNames
         /\ dc.hdr.lines[j].key \in LengthNames
         /\ dc.hdr.lines[i].key # dc.hdr.lines[j].key
         /\ dc.hdr.lines[i].digits # dc.hdr.lines[j].digits

\* C33: after exit() has closed the socket of a Client, its receive loop
\* terminates and routes no further frame: with the socket closed the loop
\* takes nothing from the connection, puts nothing on response_queue and
\* starts no handler, and it comes to its end; the loop that has ended stays
\* ended, it is never started again.
C33_LoopEndsAfterExit ==
    /\ [][/\ sock = "closed"
             => (wire' = wire /\ Len(queue') <= Len(queue)
                    /\ (rl'.pc = "handle" => rl.pc = "handle"))
          /\ rl.pc = "done" => rl' = rl]_vars
    /\ (sock = "closed") ~> (rl.pc = "done")

\* exit() has returned with the socket closed and the loop has ended.
C33_Witness == ui.pc = "exited" /\ sock = "closed" /\ rl.pc = "done" /\ nreq > 0

\* C34: while the application has no username, selecting the Gallery or the
\* Chats tab calls no request method and leaves the Authorization tab
\* selected; ChatFrame and GalleryFrame are in the notebook exactly while the
\* username is set: they come in with a successful login and a reset_client
\* that runs to its end puts the stubs back.
Installed(a) == a.chat_widget = "ChatFrame" \/ a.gallery_widget = "GalleryFrame"

C35_UndoRedo ==
    [][/\ (ed.op \in {"rotate", "crop"} /\ ed.edited # ed.before /\ ed'.op = "undo"
           /\ ed'.prev = ed.op)
          => ed'.current_image = ed.before
       /\ (ed.op = "undo" /\ ed.prev \in {"rotate", "crop"} /\ ed.edited # ed.before
           /\ ed'.op = "redo" /\ ed'.prev = "undo")
          => ed'.current_image = ed.edited]_vars

\* C36: response_queue is empty whenever no send_request call has written
\* its request and not yet taken its reply; so, with requests issued one at a
\* time, the queue is empty when a request is written, and the frame a call
\* returns is the reply to its own request, never a frame received earlier.
C36_QueueEmptyWhenIdle ==
    /\ [](/\ InFlight = 0 => queue = <<>>
          /\ ~overlap =>
                /\ ui.pc = "ret" => ui.resp.req = ui.req
                /\ \A k \in Loaders : ld[k].pc = "ret" => ld[k].resp.req = ld[k].req)
    /\ [][(nreq' = nreq + 1 /\ ~overlap') => queue = <<>>]_vars

\* The second of two requests issued one after the other has returned.
C36_Witness ==
    /\ ~overlap
    /\ nreq >= 2
    /\ ui.pc = "ret"
    /\ ui.req = nreq
    /\ ui.resp.req = nreq
    /\ queue = <<>>

\* C37: when the loop is done with a Push frame whose body carries a
\* chat_id, and no observer is registered (chat_frame is None), the log of
\* that chat holds the record of the push, display_message was not called
\* for it, and the loop has not ended: it is back at its recv.
C37_PushWithoutObserver ==
    [][/\ (rl'.pc = "recv" /\ rl' # rl /\ IsPush(rl'.frame) /\ rl'.frame.body = "msg"
           /\ ~chat_frame')
          => LET f == rl'.frame
             IN  /\ files'[f.chat].state = "ok"
                 /\ Count(files'[f.chat].log, Message("push", f.n, f.chat, f.mtype)) = 1
                 /\ f.n \notin displayed'
       /\ (rl.pc \in {"handle", "save_read", "save_open", "save_dump", "notify"}
           /\ ~chat_frame)
          => rl'.pc # "done"]_vars

\* C38: no step of the receive-loop thread writes a request: from recv
\* through handle_incoming_message, save_message and display_message the
\* request counter and the requests sent stay as they were, and the loop is
\* only ever at one of its own statements, never waiting on response_queue.
C38_LoopIssuesNoRequest ==
    /\ [](rl.pc \in {"recv", "handle", "save_read", "save_open", "save_dump",
                     "notify", "done"})
    /\ [][rl' # rl => (nreq' = nreq /\ sent' = sent)]_vars

\* The loop has shown a pushed image and is back at recv, while the loader
\* thread started for the image waits for the reply to its download.
C38_Witness ==
    /\ rl.pc = "recv"
    /\ rl.frame.mtype = "image"
    /\ rl.frame.n \in displayed
    /\ \E k \in Loaders : ld[k].pc = "wait" /\ ld[k].chat = rl.frame.chat

====
